---- MODULE Spec2Model ----
(***************************************************************************)
(* Clerk-Bot browser extension: the Session Relay of the background        *)
(* service worker (src/unnamed/part_004, "entrypoints/background").        *)
(*                                                                         *)
(* The background context is one single-threaded event loop.  Every        *)
(* action below is one run-to-completion piece of a handler: from the      *)
(* delivery of an event (or the resumption after an `await`) up to the     *)
(* next `await` of a server call (or the handler's return).  Between two   *)
(* such pieces any other event may be handled.                             *)
(*                                                                         *)
(* The second half models the content script of one tab                    *)
(* (src/unnamed/part_005, "entrypoints/content"): the Page Orchestrator,   *)
(* the overlay (lib/content/overlay-ui.ts) and the scanner and executor    *)
(* (lib/content/dom-scanner.ts).                                           *)
(***************************************************************************)
EXTENDS Naturals, Integers, Sequences, FiniteSets, Bags, TLC

(* ------------------------------ bounds -------------------------------- *)
MaxTabs == 2
MaxSessions == 2
MaxInFlight == 2
MaxEvents == 2
MaxCommands == 2
MaxText == 2
MaxNodes == 2
MaxOptions == 2

Tabs == 1..MaxTabs
SessionIds == 1..MaxSessions

(* ---------------------------- program values -------------------------- *)
\* `session?.sessionId ?? ''`: the session id a command carries when the tab
\* has no registry entry.
EmptySessionId == 0
\* `if (!tabId) return { error: 'No tab ID' }`: a message with no sender tab
\* and no active tab.
NoTabId == 0

VARIABLES
  sessions,       \* the registry Map<tabId, {sessionId, eventSource}>
  readyState,     \* EventSource objects created so far -> "OPEN" | "CLOSED"
  targetTabId,    \* the tab captured by each stream's onmessage/onerror closures
  openTabs,       \* browser tabs not yet removed
  nextSessionId,  \* server: the id the next successful start request returns
  stopRequests,   \* server: number of POST /autofill/stop received per session id
  pending,        \* bag of handleMessage invocations suspended at an await
  emitted,        \* server: events pushed on each session's stream, in order
  delivered,      \* per stream: how many of its events were dispatched to onmessage
  sent,           \* per tab: chrome.tabs.sendMessage calls, in call order
  closedBy,       \* per closed stream: what closed it first (bookkeeping)
  swallowed,      \* bookkeeping: the stop requests that failed, by issuer and session id
  response,       \* the value the handleMessage invocation that returned last passed to sendResponse
  overlay,        \* content script: `let overlay: ClerkBotOverlay | null`, as a set of 0 or 1
  asks,           \* content script: the ASK_HUMAN invocations and their question gates, oldest first
  reports,        \* content script: chrome.runtime.sendMessage calls, in call order
  cmdResponse,    \* content script: what the handleCommand invocation that returned last returned
  handled,        \* content script: number of messages handleCommand has received
  dom,            \* the page: its elements in document order
  refMap,         \* dom-scanner: Map<ref, element>
  snapshot,       \* dom-scanner: what the last scanPage() returned, as a set of 0 or 1
  events,         \* dom-scanner: what its last call did to the element it was about, in order
  result,         \* dom-scanner: what the last getElementByRef / fillFieldByRef / clickElementByRef returned
  scans           \* bookkeeping: scanPage() calls since the page last changed, counted up to 2

contentVars == <<overlay, asks, reports, cmdResponse, handled, dom, refMap,
                 snapshot, result, scans, events>>

vars == <<sessions, readyState, targetTabId, openTabs, nextSessionId,
          stopRequests, pending, emitted, delivered, sent, closedBy, response,
          swallowed,
          overlay, asks, reports, cmdResponse, handled, dom, refMap, snapshot,
          result, scans, events>>

(* ------------------------------ Map helpers --------------------------- *)
\* sessions.get(tabId): the entry, or nothing (`undefined`), as a set of 0 or 1.
MapGet(m, k) == IF k \in DOMAIN m THEN {m[k]} ELSE {}

\* sessions.set(tabId, entry)
MapSet(m, k, v) == [x \in (DOMAIN m) \cup {k} |-> IF x = k THEN v ELSE m[x]]

\* sessions.delete(tabId)
MapDelete(m, k) == [x \in (DOMAIN m) \ {k} |-> m[x]]

\* eventSource.close(): readyState becomes CLOSED, no further event is dispatched.
Close(rs, es) == [rs EXCEPT ![es] = "CLOSED"]

\* Bookkeeping for Close: the handler that closed an open stream.
MarkClosed(es, cause) ==
  IF readyState[es] = "OPEN" THEN MapSet(closedBy, es, cause) ELSE closedBy

\* What a handleMessage invocation returns: { ok: true }, { ok: true, sessionId }
\* or { error }, with the message type and tab it answers.
Response(type, tabId, ok, sessionId) ==
  [type |-> type, tabId |-> tabId, ok |-> ok, sessionId |-> sessionId]

\* A session is live: started on the server, its stream open, no stop requested.
Live(s) ==
  /\ s \in DOMAIN readyState
  /\ readyState[s] = "OPEN"
  /\ stopRequests[s] = 0

LiveSessions(t) == {s \in DOMAIN readyState : targetTabId[s] = t /\ Live(s)}

(* -------------------------------- Init -------------------------------- *)
Init ==
  /\ sessions = << >>
  /\ readyState = << >>
  /\ targetTabId = << >>
  /\ openTabs = Tabs
  /\ nextSessionId = 1
  /\ stopRequests = [s \in SessionIds |-> 0]
  /\ pending = EmptyBag
  /\ emitted = << >>
  /\ delivered = << >>
  /\ sent = [t \in Tabs |-> << >>]
  /\ closedBy = << >>
  /\ swallowed = {}
  /\ response = Response("", NoTabId, TRUE, EmptySessionId)
  /\ overlay = {}
  /\ asks = << >>
  /\ reports = << >>
  /\ cmdResponse = [ok |-> TRUE]
  /\ handled = 0
  /\ dom = << >>
  /\ refMap = << >>
  /\ snapshot = {}
  /\ result = {}
  /\ scans = 0
  /\ events = << >>

(* ------------------------- the backend (server) ----------------------- *)
\* Variant of stopAutofill that posts nothing.
stopAutofill_NotIssued(sr, sessionId) == sr

\* backendClient.stopAutofill(sessionId): POST /autofill/stop is issued when
\* the call is made; the caller swallows a failure with .catch(() => {}).
stopAutofill(sr, sessionId) == [sr EXCEPT ![sessionId] = @ + 1]

\* backendClient.createStatusStream(session_id): a new EventSource, open.
createStatusStream(rs, session_id) ==
  [x \in (DOMAIN rs) \cup {session_id} |-> IF x = session_id THEN "OPEN" ELSE rs[x]]

(* ----------------------- push-event payloads -------------------------- *)
\* event.data as JSON.parse sees it: text that does not parse, the JSON value
\* null, or an object with (possibly absent, "") `type` and `state`.
InvalidJSON == [json |-> "invalid", type |-> "", state |-> ""]
JSONNull == [json |-> "null", type |-> "", state |-> ""]
Obj(type, state) == [json |-> "object", type |-> type, state |-> state]

CommandEvents == {"scan_request", "fill_field", "click_element", "ask_human"}

Payloads ==
  {InvalidJSON, JSONNull, Obj("", "")}
    \cup {Obj(ty, "") : ty \in CommandEvents}
    \cup {Obj("status", st) : st \in {"waiting_for_human", "paused"}}

\* The payloads the server pushes in Spec, where every interleaving of the
\* handlers is explored: one that does not parse, one command, one status.
RacePayloads == {InvalidJSON, Obj("scan_request", ""), Obj("status", "done")}

\* Names that every object literal inherits from Object.prototype: a property
\* lookup by such a name finds the inherited member, not undefined.
ObjectPrototype ==
  {"constructor", "toString", "valueOf", "hasOwnProperty", "__proto__"}

\* What such a lookup yields: a function or an object, which is no status.
Inherited == "Object.prototype member"

\* statusMap[data.state] ?? 'running': statusMap is an object literal, and ??
\* replaces only null and undefined.
statusMap(state) ==
  CASE state = "running" -> "running"
    [] state = "waiting_for_human" -> "waiting"
    [] state = "done" -> "done"
    [] state = "error" -> "error"
    [] state = "stopped" -> "stopped"
    [] state = "idle" -> "idle"
    [] state \in ObjectPrototype -> Inherited
    [] OTHER -> "running"

\* One chrome.tabs.sendMessage(tabId, message) call.  `origin` and `seq` are
\* bookkeeping, not part of the wire message: the stream whose event (and its
\* position in that stream) the message was made from.
Message(type, sessionId, status, origin, seq) ==
  [type |-> type, sessionId |-> sessionId, status |-> status,
   origin |-> origin, seq |-> seq]

\* Variant of sendMessage that overtakes the messages sent before.
sendMessage_Prepend(s, tabId, message) == [s EXCEPT ![tabId] = <<message>> \o @]

sendMessage(s, tabId, message) == [s EXCEPT ![tabId] = Append(@, message)]

\* relayEventToContentScript(tabId, data): the one message it sends.
relayEventToContentScript(reg, tabId, data, origin, seq) ==
  LET session == MapGet(reg, tabId)
      sessionId == IF session = {} THEN EmptySessionId
                   ELSE (CHOOSE x \in session : TRUE).sessionId
  IN CASE data.type = "scan_request" -> Message("SCAN_PAGE", sessionId, "", origin, seq)
       [] data.type = "fill_field" -> Message("FILL_FIELD", sessionId, "", origin, seq)
       [] data.type = "click_element" -> Message("CLICK_ELEMENT", sessionId, "", origin, seq)
       [] data.type = "ask_human" -> Message("ASK_HUMAN", sessionId, "", origin, seq)
       [] OTHER -> Message("SET_STATUS", EmptySessionId, statusMap(data.state), origin, seq)

\* Variant of onmessage that reads null as an object without type or state.
onmessage_NullRelayed(s, reg, tabId, data, origin, seq) ==
  IF data.json = "invalid" THEN s
  ELSE sendMessage(s, tabId, relayEventToContentScript(reg, tabId, data, origin, seq))

\* eventSource.onmessage: JSON.parse throws on invalid text; on the value null
\* relayEventToContentScript throws a TypeError at `data.type`; both are caught
\* by the same catch and nothing is sent.
onmessage(s, reg, tabId, data, origin, seq) ==
  IF data.json = "invalid" THEN s
  ELSE IF data.json = "null" THEN s
  ELSE sendMessage(s, tabId, relayEventToContentScript(reg, tabId, data, origin, seq))

(* ------------------------- handleMessage: ACTIVATE -------------------- *)
\* A handleMessage invocation suspended at `await backendClient.<at>(...)`, with
\* its locals; `live` is bookkeeping: the entry it read was a live session.
Handler(type, tabId, at, existing, live) ==
  [type |-> type, tabId |-> tabId, at |-> at, existing |-> existing, live |-> live]

Entry(x) == CHOOSE e \in x : TRUE

OldId(existing) == IF existing = {} THEN EmptySessionId ELSE Entry(existing).sessionId

PendingActivates ==
  LET acts == {h \in BagToSet(pending) : h.type = "ACTIVATE"}
  IN BagCardinality([h \in acts |-> pending[h]])

\* Variant of ActivateTeardown that leaves the old stream open.
ActivateTeardown_NoClose(rs, existing) == rs

\* `if (existing) { existing.eventSource.close(); ...stopAutofill(...)`: what the
\* handler does to the old entry before it awaits the stop response.
ActivateTeardown(rs, existing) == Close(rs, Entry(existing).eventSource)

\* ACTIVATE arrives for a tab: from `sessions.get(tabId)` to the first await,
\* which is the stop request when the tab has an entry and the start request
\* otherwise.  (The await of chrome.tabs.query before it reads no state.)
ActivateBegin(tabId) ==
  /\ tabId \in openTabs
  /\ BagCardinality(pending) < MaxInFlight
  /\ (nextSessionId - 1) + PendingActivates < MaxSessions
  /\ LET existing == MapGet(sessions, tabId)
         live == existing # {} /\ Live(Entry(existing).sessionId)
     IN /\ IF existing # {}
           THEN /\ readyState' = ActivateTeardown(readyState, existing)
                /\ stopRequests' = stopAutofill(stopRequests, Entry(existing).sessionId)
                /\ pending' = pending (+) SetToBag({Handler("ACTIVATE", tabId,
                                 "stopAutofill", existing, live)})
                /\ closedBy' = MarkClosed(Entry(existing).eventSource, "ACTIVATE")
           ELSE /\ pending' = pending (+) SetToBag({Handler("ACTIVATE", tabId,
                                 "startAutofill", existing, live)})
                /\ UNCHANGED <<readyState, stopRequests, closedBy>>
  /\ UNCHANGED <<sessions, targetTabId, openTabs, nextSessionId, emitted,
                 delivered, sent, response>>
  /\ UNCHANGED swallowed
  /\ UNCHANGED contentVars

\* The stop response arrives: `sessions.delete(tabId)`,
\* then the start request is issued and awaited.
ActivateAfterStop(h) ==
  /\ h \in BagToSet(pending)
  /\ h.type = "ACTIVATE" /\ h.at = "stopAutofill"
  /\ sessions' = MapDelete(sessions, h.tabId)
  /\ pending' = (pending (-) SetToBag({h})) (+)
                  SetToBag({[h EXCEPT !.at = "startAutofill"]})
  /\ UNCHANGED <<readyState, targetTabId, openTabs, nextSessionId, stopRequests,
                 emitted, delivered, sent, closedBy, response>>
  /\ UNCHANGED swallowed
  /\ UNCHANGED contentVars

\* A stop request that failed and whose failure `.catch(() => {})` swallowed.
Swallowed(by, sessionId) == [by |-> by, sessionId |-> sessionId]

\* The stop request fails: `.catch(() => {})` swallows the failure and the
\* handler goes on as after a response.
ActivateAfterStopFailed(h) ==
  /\ h \in BagToSet(pending)
  /\ h.type = "ACTIVATE" /\ h.at = "stopAutofill"
  /\ sessions' = MapDelete(sessions, h.tabId)
  /\ pending' = (pending (-) SetToBag({h})) (+)
                  SetToBag({[h EXCEPT !.at = "startAutofill"]})
  /\ swallowed' = swallowed \cup {Swallowed("ACTIVATE", Entry(h.existing).sessionId)}
  /\ UNCHANGED <<readyState, targetTabId, openTabs, nextSessionId, stopRequests,
                 emitted, delivered, sent, closedBy, response>>
  /\ UNCHANGED contentVars

\* The start response arrives with a fresh session_id: the stream is created,
\* the entry is set, the handlers are attached, { ok: true, sessionId } returned.
ActivateStarted(h) ==
  /\ h \in BagToSet(pending)
  /\ h.type = "ACTIVATE" /\ h.at = "startAutofill"
  /\ LET session_id == nextSessionId
     IN /\ nextSessionId' = nextSessionId + 1
        /\ readyState' = createStatusStream(readyState, session_id)
        /\ sessions' = MapSet(sessions, h.tabId,
                              [sessionId |-> session_id, eventSource |-> session_id])
        /\ targetTabId' = MapSet(targetTabId, session_id, h.tabId)
        /\ emitted' = MapSet(emitted, session_id, << >>)
        /\ delivered' = MapSet(delivered, session_id, 0)
        /\ response' = Response("ACTIVATE", h.tabId, TRUE, session_id)
  /\ pending' = pending (-) SetToBag({h})
  /\ UNCHANGED <<openTabs, stopRequests, sent, closedBy>>
  /\ UNCHANGED swallowed
  /\ UNCHANGED contentVars

\* The start request fails: `catch (error) { return { error: String(error) } }`.
ActivateStartFailed(h) ==
  /\ h \in BagToSet(pending)
  /\ h.type = "ACTIVATE" /\ h.at = "startAutofill"
  /\ pending' = pending (-) SetToBag({h})
  /\ response' = Response("ACTIVATE", h.tabId, FALSE, EmptySessionId)
  /\ UNCHANGED <<sessions, readyState, targetTabId, openTabs, nextSessionId,
                 stopRequests, emitted, delivered, sent, closedBy>>
  /\ UNCHANGED swallowed
  /\ UNCHANGED contentVars

\* ACTIVATE or STOP with no sender tab and no active tab: { error: 'No tab ID' }.
NoTab(type) ==
  /\ response' = Response(type, NoTabId, FALSE, EmptySessionId)
  /\ UNCHANGED <<sessions, readyState, targetTabId, openTabs, nextSessionId,
                 stopRequests, pending, emitted, delivered, sent, closedBy>>
  /\ UNCHANGED swallowed
  /\ UNCHANGED contentVars

(* --------------------------- handleMessage: STOP ---------------------- *)
\* Variant of StopNoSession with the SET_STATUS sent outside `if (session)`.
StopNoSession_StatusAnyway(tabId) ==
  /\ tabId \in openTabs
  /\ MapGet(sessions, tabId) = {}
  /\ sent' = sendMessage(sent, tabId,
                Message("SET_STATUS", EmptySessionId, "stopped", EmptySessionId, 0))
  /\ response' = Response("STOP", tabId, TRUE, EmptySessionId)
  /\ UNCHANGED <<sessions, readyState, targetTabId, openTabs, nextSessionId,
                 stopRequests, pending, emitted, delivered, closedBy>>
  /\ UNCHANGED swallowed
  /\ UNCHANGED contentVars

\* STOP for a tab with no entry: `if (session)` is skipped, { ok: true }.
StopNoSession(tabId) ==
  /\ tabId \in openTabs
  /\ MapGet(sessions, tabId) = {}
  /\ response' = Response("STOP", tabId, TRUE, EmptySessionId)
  /\ UNCHANGED <<sessions, readyState, targetTabId, openTabs, nextSessionId,
                 stopRequests, pending, emitted, delivered, sent, closedBy>>
  /\ UNCHANGED swallowed
  /\ UNCHANGED contentVars

\* STOP for a tab with an entry: the stop request is issued and awaited.
StopBegin(tabId) ==
  /\ tabId \in openTabs
  /\ BagCardinality(pending) < MaxInFlight
  /\ LET session == MapGet(sessions, tabId)
     IN /\ session # {}
        /\ stopRequests' = stopAutofill(stopRequests, Entry(session).sessionId)
        /\ pending' = pending (+) SetToBag({Handler("STOP", tabId, "stopAutofill",
                           session, Live(Entry(session).sessionId))})
  /\ UNCHANGED <<sessions, readyState, targetTabId, openTabs, nextSessionId,
                 emitted, delivered, sent, closedBy, response>>
  /\ UNCHANGED swallowed
  /\ UNCHANGED contentVars

\* Variant of StopAfterStop that leaves the stream open: the entry is
\* deleted and SET_STATUS stopped sent all the same.
StopAfterStop_NoClose(h) ==
  /\ h \in BagToSet(pending)
  /\ h.type = "STOP" /\ h.at = "stopAutofill"
  /\ sessions' = MapDelete(sessions, h.tabId)
  /\ sent' = sendMessage(sent, h.tabId,
                Message("SET_STATUS", EmptySessionId, "stopped",
                        Entry(h.existing).eventSource, 0))
  /\ pending' = pending (-) SetToBag({h})
  /\ response' = Response("STOP", h.tabId, TRUE, EmptySessionId)
  /\ UNCHANGED <<readyState, closedBy, targetTabId, openTabs, nextSessionId,
                 stopRequests, emitted, delivered>>
  /\ UNCHANGED swallowed
  /\ UNCHANGED contentVars

\* The stop response arrives: the captured session's
\* stream is closed, the tab's entry deleted, SET_STATUS stopped sent.
StopAfterStop(h) ==
  /\ h \in BagToSet(pending)
  /\ h.type = "STOP" /\ h.at = "stopAutofill"
  /\ readyState' = Close(readyState, Entry(h.existing).eventSource)
  /\ closedBy' = MarkClosed(Entry(h.existing).eventSource, "STOP")
  /\ sessions' = MapDelete(sessions, h.tabId)
  /\ sent' = sendMessage(sent, h.tabId,
                Message("SET_STATUS", EmptySessionId, "stopped",
                        Entry(h.existing).eventSource, 0))
  /\ pending' = pending (-) SetToBag({h})
  /\ response' = Response("STOP", h.tabId, TRUE, EmptySessionId)
  /\ UNCHANGED <<targetTabId, openTabs, nextSessionId, stopRequests, emitted,
                 delivered>>
  /\ UNCHANGED swallowed
  /\ UNCHANGED contentVars

\* Variant of StopAfterStopFailed in which the failure is not caught: the
\* handler rejects and the listener replies { error }.
StopAfterStopFailed_Thrown(h) ==
  /\ h \in BagToSet(pending)
  /\ h.type = "STOP" /\ h.at = "stopAutofill"
  /\ pending' = pending (-) SetToBag({h})
  /\ response' = Response("STOP", h.tabId, FALSE, EmptySessionId)
  /\ swallowed' = swallowed \cup {Swallowed("STOP", Entry(h.existing).sessionId)}
  /\ UNCHANGED <<sessions, readyState, closedBy, sent, targetTabId, openTabs,
                 nextSessionId, stopRequests, emitted, delivered>>
  /\ UNCHANGED contentVars

\* The stop request fails: `.catch(() => {})` swallows the failure and the
\* handler goes on as after a response.
StopAfterStopFailed(h) ==
  /\ h \in BagToSet(pending)
  /\ h.type = "STOP" /\ h.at = "stopAutofill"
  /\ readyState' = Close(readyState, Entry(h.existing).eventSource)
  /\ closedBy' = MarkClosed(Entry(h.existing).eventSource, "STOP")
  /\ sessions' = MapDelete(sessions, h.tabId)
  /\ sent' = sendMessage(sent, h.tabId,
                Message("SET_STATUS", EmptySessionId, "stopped",
                        Entry(h.existing).eventSource, 0))
  /\ pending' = pending (-) SetToBag({h})
  /\ response' = Response("STOP", h.tabId, TRUE, EmptySessionId)
  /\ swallowed' = swallowed \cup {Swallowed("STOP", Entry(h.existing).sessionId)}
  /\ UNCHANGED <<targetTabId, openTabs, nextSessionId, stopRequests, emitted,
                 delivered>>
  /\ UNCHANGED contentVars

(* ------------------------ chrome.tabs.onRemoved ----------------------- *)
\* The tab is closed: if it has an entry, close its stream, issue the stop
\* request (not awaited) and delete the entry, all in one piece.
onRemoved(tabId) ==
  /\ tabId \in openTabs
  /\ openTabs' = openTabs \ {tabId}
  /\ LET session == MapGet(sessions, tabId)
     IN /\ IF session # {}
           THEN /\ readyState' = Close(readyState, Entry(session).eventSource)
                /\ closedBy' = MarkClosed(Entry(session).eventSource, "onRemoved")
                /\ stopRequests' = stopAutofill(stopRequests, Entry(session).sessionId)
                /\ sessions' = MapDelete(sessions, tabId)
           ELSE UNCHANGED <<readyState, closedBy, stopRequests, sessions>>
  /\ UNCHANGED <<targetTabId, nextSessionId, pending, emitted, delivered, sent,
                 response>>
  /\ UNCHANGED swallowed
  /\ UNCHANGED contentVars

\* The stop request that the removal of a tab issued fails, after the
\* listener has returned: `.catch(() => {})` swallows the failure.
onRemovedStopFailed(es) ==
  /\ es \in DOMAIN closedBy
  /\ closedBy[es] = "onRemoved"
  /\ Swallowed("onRemoved", es) \notin swallowed
  /\ swallowed' = swallowed \cup {Swallowed("onRemoved", es)}
  /\ UNCHANGED <<sessions, readyState, targetTabId, openTabs, nextSessionId,
                 stopRequests, pending, emitted, delivered, sent, closedBy, response>>
  /\ UNCHANGED contentVars

(* --------------------------- the event stream ------------------------- *)
\* Events the server has pushed on the stream so far: dispatched ones plus
\* those still queued.
EmittedOn(es) == delivered[es] + Len(emitted[es])

EmittedTotal ==
  LET RECURSIVE Sum(_)
      Sum(S) == IF S = {} THEN 0
                ELSE LET x == CHOOSE y \in S : TRUE
                     IN EmittedOn(x) + Sum(S \ {x})
  IN Sum(DOMAIN emitted)

\* The server pushes one more event on an open session stream; `n` is its
\* position among the events of that stream.
ServerEmit(es, data) ==
  /\ es \in DOMAIN readyState
  /\ readyState[es] = "OPEN"
  /\ EmittedTotal < MaxEvents
  /\ emitted' = [emitted EXCEPT ![es] = Append(@, [data |-> data, n |-> EmittedOn(es) + 1])]
  /\ UNCHANGED <<sessions, readyState, targetTabId, openTabs, nextSessionId,
                 stopRequests, pending, delivered, sent, closedBy, response>>
  /\ UNCHANGED swallowed
  /\ UNCHANGED contentVars

\* The event the EventSource dispatches next: the oldest queued one.
NextEvent(queue) == Head(queue)

\* The EventSource dispatches the next event of the stream to
\* eventSource.onmessage; a closed EventSource dispatches nothing.
StreamMessage(es) ==
  /\ es \in DOMAIN readyState
  /\ readyState[es] = "OPEN"
  /\ emitted[es] # << >>
  /\ LET event == NextEvent(emitted[es])
     IN /\ delivered' = [delivered EXCEPT ![es] = @ + 1]
        /\ emitted' = [emitted EXCEPT ![es] = SelectSeq(@, LAMBDA e : e # event)]
        /\ sent' = onmessage(sent, sessions, targetTabId[es], event.data, es, event.n)
  /\ UNCHANGED <<sessions, readyState, targetTabId, openTabs, nextSessionId,
                 stopRequests, pending, closedBy, response>>
  /\ UNCHANGED swallowed
  /\ UNCHANGED contentVars

\* Variant of onerrorNotify that tells the page that the session has failed.
onerrorNotify_Status(s, tabId, es) ==
  sendMessage(s, tabId, Message("SET_STATUS", EmptySessionId, "error", es, 0))

\* eventSource.onerror: what it sends to the page (nothing).
onerrorNotify(s, tabId, es) == s

\* Variant of onerrorDelete that keeps the entry.
onerrorDelete_Keep(reg, tabId) == reg

\* sessions.delete(targetTabId) of eventSource.onerror
onerrorDelete(reg, tabId) == MapDelete(reg, tabId)

\* The stream fails or the server closes it: eventSource.onerror.
StreamError(es) ==
  /\ es \in DOMAIN readyState
  /\ readyState[es] = "OPEN"
  /\ readyState' = Close(readyState, es)
  /\ sessions' = onerrorDelete(sessions, targetTabId[es])
  /\ closedBy' = MarkClosed(es, "onerror")
  /\ sent' = onerrorNotify(sent, targetTabId[es], es)
  /\ UNCHANGED <<targetTabId, openTabs, nextSessionId, stopRequests, pending,
                 emitted, delivered, response>>
  /\ UNCHANGED swallowed
  /\ UNCHANGED contentVars

(* ------------------------------- Next --------------------------------- *)
Next ==
  \/ \E t \in Tabs : ActivateBegin(t)
  \/ \E h \in BagToSet(pending) : ActivateAfterStop(h)
  \/ \E h \in BagToSet(pending) : ActivateStarted(h)
  \/ \E h \in BagToSet(pending) : ActivateStartFailed(h)
  \/ \E ty \in {"ACTIVATE", "STOP"} : NoTab(ty)
  \/ \E t \in Tabs : StopNoSession(t)
  \/ \E t \in Tabs : StopBegin(t)
  \/ \E h \in BagToSet(pending) : StopAfterStop(h)
  \/ \E t \in Tabs : onRemoved(t)
  \/ \E es \in SessionIds, data \in RacePayloads : ServerEmit(es, data)
  \/ \E es \in SessionIds : StreamMessage(es)
  \/ \E es \in SessionIds : StreamError(es)

Spec == Init /\ [][Next]_vars

\* The relay with at most one handleMessage invocation in progress at a time
\* (stream events, stream errors and tab closures still interleave with it),
\* and every kind of payload on the streams.
RelayNext ==
  \/ \E t \in Tabs : pending = EmptyBag /\ ActivateBegin(t)
  \/ \E h \in BagToSet(pending) : ActivateAfterStop(h)
  \/ \E h \in BagToSet(pending) : ActivateStarted(h)
  \/ \E h \in BagToSet(pending) : ActivateStartFailed(h)
  \/ \E t \in Tabs : pending = EmptyBag /\ StopNoSession(t)
  \/ \E t \in Tabs : pending = EmptyBag /\ StopBegin(t)
  \/ \E h \in BagToSet(pending) : StopAfterStop(h)
  \/ \E t \in Tabs : onRemoved(t)
  \/ \E es \in SessionIds, data \in Payloads : ServerEmit(es, data)
  \/ \E es \in SessionIds : StreamMessage(es)
  \/ \E es \in SessionIds : StreamError(es)

RelaySpec == Init /\ [][RelayNext]_vars

(* ====================================================================== *)
(*                    The content script of one tab                       *)
(* ====================================================================== *)
(* ------------------------------- text --------------------------------- *)
\* A string, as the sequence of its characters.
Chars == {" ", "a"}
Texts == UNION {[1..n -> Chars] : n \in 0..MaxText}

\* Variant of trim that removes leading white space only.
trim_StartOnly(text) ==
  LET RECURSIVE trimStart(_)
      trimStart(t) == IF t # << >> /\ Head(t) = " " THEN trimStart(Tail(t)) ELSE t
  IN trimStart(text)

\* String.prototype.trim(): the string without its leading and trailing
\* white space.
trim(text) ==
  LET RECURSIVE trimStart(_)
      trimStart(t) == IF t # << >> /\ Head(t) = " " THEN trimStart(Tail(t)) ELSE t
      RECURSIVE trimEnd(_)
      trimEnd(t) == IF t # << >> /\ t[Len(t)] = " "
                    THEN trimEnd(SubSeq(t, 1, Len(t) - 1)) ELSE t
  IN trimEnd(trimStart(text))

\* String.prototype.toLowerCase(), for the letters that occur here.
toLowerCase(text) ==
  LET lower(c) == CASE c = "A" -> "a" [] c = "B" -> "b" [] c = "E" -> "e"
                    [] c = "R" -> "r" [] c = "S" -> "s" [] c = "T" -> "t"
                    [] c = "U" -> "u" [] c = "Y" -> "y" [] OTHER -> c
  IN [i \in 1..Len(text) |-> lower(text[i])]

\* Variant of includes that holds of equal strings only.
includes_Equal(text, part) == text = part

\* String.prototype.includes(part): every string includes the empty string.
includes(text, part) ==
  \E i \in 0..(Len(text) - Len(part)) : SubSeq(text, i + 1, i + Len(part)) = part

\* A `value` that is not a string: the relay passes on `data.value` of the
\* server's event as it is, and an event without one gives undefined.
undefined == <<"undefined">>

\* The string a value is converted to where a string is required.
String(value) ==
  IF value = undefined THEN <<"u", "n", "d", "e", "f", "i", "n", "e", "d">>
  ELSE value

(* ----------------------------- the overlay ---------------------------- *)
OverlayStatus == {"idle", "running", "waiting", "done", "error", "stopped"}

\* defaultMessageFor(status)
defaultMessageFor(status) ==
  CASE status = "idle" -> <<"Ready.">>
    [] status = "running" -> <<"Working...">>
    [] status = "waiting" -> <<"Waiting for your answer...">>
    [] status = "done" -> <<"Done!">>
    [] status = "error" -> <<"Error.">>
    [] status = "stopped" -> <<"Stopped.">>

\* `message` of setStatus(status, message?) when the argument is absent.
NoMessage == << >>

\* new ClerkBotOverlay(): the fields buildUI sets.  statusIcon holds the glyph
\* of statusIconFor(status), named here by its status; questionSection holds
\* the gate whose heading, input and submit button it shows (0: it is empty)
\* and input the value of that input; bodySection is the element that holds
\* the status line, the two buttons and the question section.
ClerkBotOverlay ==
  [statusIcon |-> "idle",
   statusText |-> defaultMessageFor("idle"),
   autoFillBtn |-> [disabled |-> FALSE, display |-> ""],
   stopBtn |-> [display |-> "none"],
   questionSection |-> 0,
   input |-> << >>,
   minimized |-> FALSE,
   bodySection |-> [display |-> ""],
   minimizeBtn |-> [textContent |-> "-", title |-> "Minimize"]]

\* ensureOverlay(): the overlay, created (and mounted) at first use.
ensureOverlay(ov) == IF ov = {} THEN ClerkBotOverlay ELSE CHOOSE o \in ov : TRUE

\* Variant of setStatus that treats only `running` as active.
setStatus_RunningOnly(o, status, message) ==
  LET isActive == status = "running"
  IN [o EXCEPT !.statusIcon = status,
               !.statusText = IF message = NoMessage THEN defaultMessageFor(status)
                              ELSE message,
               !.autoFillBtn = [disabled |-> isActive,
                                display |-> IF isActive THEN "none" ELSE "block"],
               !.stopBtn = [display |-> IF isActive THEN "block" ELSE "none"]]

\* overlay.setStatus(status, message?)
setStatus(o, status, message) ==
  LET isActive == status = "running" \/ status = "waiting"
  IN [o EXCEPT !.statusIcon = status,
               !.statusText = IF message = NoMessage THEN defaultMessageFor(status)
                              ELSE message,
               !.autoFillBtn = [disabled |-> isActive,
                                display |-> IF isActive THEN "none" ELSE "block"],
               !.stopBtn = [display |-> IF isActive THEN "block" ELSE "none"]]

\* Variant of toggleMinimize that also empties the question section.
toggleMinimize_DropsQuestion(o) ==
  LET minimized == ~o.minimized
  IN [o EXCEPT !.minimized = minimized,
               !.bodySection = [display |-> IF minimized THEN "none" ELSE "block"],
               !.minimizeBtn = [textContent |-> IF minimized THEN "+" ELSE "-",
                                title |-> IF minimized THEN "Expand" ELSE "Minimize"],
               !.questionSection = 0,
               !.input = << >>]

\* overlay.toggleMinimize()
toggleMinimize(o) ==
  LET minimized == ~o.minimized
  IN [o EXCEPT !.minimized = minimized,
               !.bodySection = [display |-> IF minimized THEN "none" ELSE "block"],
               !.minimizeBtn = [textContent |-> IF minimized THEN "+" ELSE "-",
                                title |-> IF minimized THEN "Expand" ELSE "Minimize"]]

\* One ASK_HUMAN invocation of handleCommand with the promise (gate) that
\* showQuestion returned to it: `settled` and `answer` are the promise's state,
\* `cmd` is bookkeeping (which message of the tab it is).
Ask(sessionId, question, cmd) ==
  [sessionId |-> sessionId, question |-> question, settled |-> FALSE,
   answer |-> << >>, cmd |-> cmd]

\* Variant of showQuestion that keeps showing the earlier open question.
showQuestion_KeepEarlier(o, gate) ==
  IF o.questionSection # 0 THEN o
  ELSE [o EXCEPT !.questionSection = gate, !.input = << >>]

\* overlay.showQuestion(question): questionSection is emptied and filled with
\* the heading, input and submit button of the new gate.
showQuestion(o, gate) == [o EXCEPT !.questionSection = gate, !.input = << >>]

\* resolve(answer) of a promise: settles it once; a settled promise stays.
resolve(a, answer) ==
  IF a.settled THEN a ELSE [a EXCEPT !.settled = TRUE, !.answer = answer]

(* ------------------------------ the page ------------------------------ *)
\* One element of the page.  `id` is the identity of the DOM node; `kind` is
\* what the scanner's selectors and instanceof tests see:
\*   "input"    <input type="text">            "hidden"   <input type="hidden">
\*   "submit"   <input type="submit">          "button"   <button>
\*   "link"     <a class="btn">                "rolelink" <a class="btn" role="button">
\*   "checkbox" <input type="checkbox">        "radio"    <input type="radio">
\*   "file"     <input type="file">            "select"   <select>
\*   "textarea" <textarea>
\* `visible` is isVisible(el); `text` is el.value of an input or textarea and
\* el.textContent of a button or link; `checked` and `disabled` are the
\* properties of those names; `options` are the options of a select in
\* document order and `selectedIndex` the position of the selected one
\* (counted from 1; 0 when none is selected).
Element(id, kind, visible, text) ==
  [id |-> id, kind |-> kind, visible |-> visible, text |-> text,
   checked |-> FALSE, disabled |-> FALSE, options |-> << >>, selectedIndex |-> 0]

\* An <option>: its display text (option.text) and its underlying value.
Option(text, value) == [text |-> text, value |-> value]

Checkbox(id, checked, disabled) ==
  [Element(id, "checkbox", TRUE, << >>) EXCEPT !.checked = checked,
                                                !.disabled = disabled]

Select(id, options, selectedIndex) ==
  [Element(id, "select", TRUE, << >>) EXCEPT !.options = options,
                                              !.selectedIndex = selectedIndex]

\* The elements the pages are made of, up to their identity.
Elements ==
  {Element(0, "input", TRUE, <<"a">>),
   Element(0, "input", FALSE, << >>), Element(0, "hidden", TRUE, <<"a">>),
   Element(0, "submit", TRUE, <<"a">>), Element(0, "submit", TRUE, << >>),
   Element(0, "button", TRUE, <<"a">>), Element(0, "button", TRUE, <<" ">>),
   Element(0, "link", TRUE, <<"a">>), Element(0, "rolelink", TRUE, <<"a">>)}

NodeIds == 1..MaxNodes

\* The pages: at most MaxNodes elements in document order, each node once.
Doms ==
  UNION {{d \in [1..n -> {[e EXCEPT !.id = i] : e \in Elements, i \in NodeIds}] :
            \A i, j \in 1..n : i # j => d[i].id # d[j].id} : n \in 0..MaxNodes}

(* ----------------------------- dom-scanner ---------------------------- *)
\* `f${fieldIdx}` and `b${buttonIdx}`
Ref(prefix, idx) == <<prefix, idx>>

\* The HTMLElement a reference is bound to: the node and what it is.
Node(el) == [id |-> el.id, kind |-> el.kind]

isVisible(el) == el.visible

isHiddenInput(el) == el.kind = "hidden"

\* getFieldType(el)
getFieldType(el) ==
  IF el.kind \in {"select", "textarea", "submit", "checkbox", "radio", "file", "hidden"}
  THEN el.kind ELSE "text"

\* getFieldValue(el)
getFieldValue(el) ==
  IF el.kind = "select"
  THEN IF el.selectedIndex # 0 /\ el.options[el.selectedIndex].value # << >>
       THEN trim(el.options[el.selectedIndex].text) ELSE << >>
  ELSE el.text

\* The texts of the options a select offers: those with a value.
availableOptions(el) ==
  LET offered == SelectSeq(el.options, LAMBDA opt : opt.value # << >>)
  IN [i \in 1..Len(offered) |-> trim(offered[i].text)]

\* getButtonText(el): el.value of an input, else the trimmed textContent (the
\* elements here carry no aria-label and no title).
getButtonText(el) == IF el.kind = "submit" THEN el.text ELSE trim(el.text)

\* document.querySelectorAll('input, select, textarea')
formElements(d) ==
  SelectSeq(d, LAMBDA el : el.kind \in {"input", "hidden", "submit", "checkbox",
                                        "radio", "file", "select", "textarea"})

\* document.querySelectorAll('button, input[type="submit"], input[type="button"], [role="button"]')
buttonElements(d) == SelectSeq(d, LAMBDA el : el.kind \in {"button", "submit", "rolelink"})

\* document.querySelectorAll('a[class*="btn"], ...')
linkButtons(d) == SelectSeq(d, LAMBDA el : el.kind \in {"link", "rolelink"})

\* Variant of clear that keeps the table.
clear_Keep(rm) == rm

\* refMap.clear()
clear(rm) == << >>

\* Variant of fieldRef whose counter goes on from the size of the old table.
fieldRef_Continued(fieldIdx) == Ref("f", fieldIdx + Cardinality(DOMAIN refMap))

\* const ref = `f${fieldIdx++}`
fieldRef(fieldIdx) == Ref("f", fieldIdx)

\* scanPage(): the table it leaves and the PageSnapshot it returns (url and
\* title, which it copies from the window, are left out).
scanPage(rm, d) ==
  LET keptFields == SelectSeq(formElements(d),
                              LAMBDA el : isVisible(el) /\ ~isHiddenInput(el))
      keptButtons == SelectSeq(buttonElements(d),
                               LAMBDA el : isVisible(el) /\ getButtonText(el) # << >>)
      keptLinks == SelectSeq(linkButtons(d),
                             LAMBDA el : isVisible(el) /\ trim(el.text) # << >>)
      n == Len(keptFields)
      m1 == Len(keptButtons)
      m == m1 + Len(keptLinks)
      buttonEl(i) == IF i <= m1 THEN keptButtons[i] ELSE keptLinks[i - m1]
      fields == [i \in 1..n |->
                   [ref |-> fieldRef(i - 1), type |-> getFieldType(keptFields[i]),
                    value |-> getFieldValue(keptFields[i]),
                    options |-> IF keptFields[i].kind = "select"
                                THEN availableOptions(keptFields[i]) ELSE << >>,
                    checked |-> IF keptFields[i].kind \in {"checkbox", "radio"}
                                THEN {keptFields[i].checked} ELSE {}]]
      buttons == [i \in 1..m |->
                    [ref |-> Ref("b", i - 1),
                     text |-> IF i <= m1 THEN getButtonText(buttonEl(i))
                              ELSE trim(buttonEl(i).text),
                     type |-> IF i > m1 THEN "link"
                              ELSE IF buttonEl(i).kind = "button" THEN "submit"
                              ELSE "button"]]
      fieldRefs == {fields[i].ref : i \in 1..n}
      buttonRefs == {buttons[i].ref : i \in 1..m}
      old == clear(rm)
      \* refMap.set(ref, el): a later set of the same ref replaces the earlier
      bound(r) ==
        IF r \in buttonRefs
        THEN Node(buttonEl(CHOOSE i \in 1..m : buttons[i].ref = r))
        ELSE IF r \in fieldRefs
        THEN Node(keptFields[CHOOSE i \in 1..n : fields[i].ref = r])
        ELSE old[r]
  IN [refMap |-> [r \in (DOMAIN old) \cup fieldRefs \cup buttonRefs |-> bound(r)],
      snapshot |-> [fields |-> fields, buttons |-> buttons]]

\* Bookkeeping: one more scan of the page as it is.
Counted(n) == IF n < 2 THEN n + 1 ELSE 2

\* getElementByRef(ref): refMap.get(ref) ?? null, as a set of 0 or 1.
getElementByRef(rm, ref) == MapGet(rm, ref)

\* What fillFieldByRef and clickElementByRef return.
ActionResult(ok, error) == [ok |-> ok, error |-> error]

\* An error thrown inside a call and not yet caught.
Throw(err) == [thrown |-> err]

isThrown(res) == "thrown" \in DOMAIN res

\* Variant of caught in which the error goes on to the caller.
caught_Rethrown(err) == Throw(err)

\* catch (err) { return { ok: false, error: String(err) } }
caught(err) == ActionResult(FALSE, <<"Error", err>>)

\* One thing done to an element: a native click or a dispatched event, with
\* the value the element has when it is done (el.focus() is not recorded).
Event(type, value) == [type |-> type, value |-> value]

\* The element a table entry is: the node of the page with that identity, or
\* the node as it was detached (its state is then out of the page's hands).
elementOf(d, node) ==
  IF \E i \in 1..Len(d) : d[i].id = node.id /\ d[i].kind = node.kind
  THEN d[CHOOSE i \in 1..Len(d) : d[i].id = node.id /\ d[i].kind = node.kind]
  ELSE Element(node.id, node.kind, FALSE, << >>)

\* el.click(): the native click.  It does nothing on a disabled form control;
\* it toggles a checkbox and checks a radio button (what the page does on the
\* click is the page's own step).
click(el) ==
  IF el.disabled THEN el
  ELSE IF el.kind = "checkbox" THEN [el EXCEPT !.checked = ~el.checked]
  ELSE IF el.kind = "radio" THEN [el EXCEPT !.checked = TRUE]
  ELSE el

\* What a fill or click does: the element after it, what is returned and what
\* was done to the element, in order.
Done(el, res, evts) == [el |-> el, result |-> res, events |-> evts]

\* Variant of fillTextInput that sets the value before anything is dispatched.
fillTextInput_SetFirst(el, value) ==
  LET set == [el EXCEPT !.text = value]
  IN Done(set, ActionResult(TRUE, << >>),
          <<Event("input", set.text), Event("input", set.text), Event("change", set.text),
            Event("blur", set.text)>>)

\* fillTextInput(el, value)
fillTextInput(el, value) ==
  LET cleared == [el EXCEPT !.text = << >>]
      set == [cleared EXCEPT !.text = String(value)]
  IN Done(set, ActionResult(TRUE, << >>),
          <<Event("input", cleared.text), Event("input", set.text), Event("change", set.text),
            Event("blur", set.text)>>)

\* The loop of fillSelect from option i on: the position of bestMatch when it
\* ends (0: null).
RECURSIVE bestMatchFrom(_, _, _, _)
bestMatchFrom(options, valueLower, i, bestMatch) ==
  IF i > Len(options) THEN bestMatch
  ELSE LET optText == toLowerCase(trim(options[i].text))
           optValue == toLowerCase(options[i].value)
       IN IF optText = valueLower \/ optValue = valueLower THEN i
          ELSE IF bestMatch = 0
                  /\ (includes(optText, valueLower) \/ includes(valueLower, optText))
               THEN bestMatchFrom(options, valueLower, i + 1, i)
               ELSE bestMatchFrom(options, valueLower, i + 1, bestMatch)

\* `el.value = v` of a select: the first option with that value becomes the
\* selected one, none if there is no such option.
setSelectValue(el, v) ==
  LET having == {i \in 1..Len(el.options) : el.options[i].value = v}
  IN [el EXCEPT !.selectedIndex =
        IF having = {} THEN 0 ELSE CHOOSE i \in having : \A j \in having : i <= j]

\* Variant of bestMatch in which the first option that matches in any way
\* wins, exactly or not.
bestMatch_FirstOfAny(options, valueLower) ==
  LET matching == {i \in 1..Len(options) :
                     \/ toLowerCase(trim(options[i].text)) = valueLower
                     \/ toLowerCase(options[i].value) = valueLower
                     \/ includes(toLowerCase(trim(options[i].text)), valueLower)
                     \/ includes(valueLower, toLowerCase(trim(options[i].text)))}
  IN IF matching = {} THEN 0 ELSE CHOOSE i \in matching : \A j \in matching : i <= j

\* bestMatch when the loop of fillSelect is over, as a position (0: null).
bestMatch(options, valueLower) == bestMatchFrom(options, valueLower, 1, 0)

\* fillSelect(el, value)
fillSelect(el, value) ==
  LET valueLower == trim(toLowerCase(value))
      best == bestMatch(el.options, valueLower)
      set == setSelectValue(el, el.options[best].value)
  IN IF value = undefined THEN Done(el, Throw("TypeError"), << >>)
     ELSE IF best = 0
     THEN Done(el, ActionResult(FALSE, <<"No matching option for", value,
                                         availableOptions(el)>>), << >>)
     ELSE Done(set, ActionResult(TRUE, << >>),
               <<Event("change", el.options[best].value)>>)

\* ['true', 'yes', '1'].includes(value.toLowerCase())
shouldCheck(value) ==
  toLowerCase(value) \in {<<"t", "r", "u", "e">>, <<"y", "e", "s">>, <<"1">>}

\* The checkbox branch of fillFieldByRef (value.toLowerCase() throws when the
\* value is not a string).
fillCheckbox(el, value) ==
  IF value = undefined THEN Done(el, Throw("TypeError"), << >>)
  ELSE IF el.checked # shouldCheck(value)
  THEN Done(click(el), ActionResult(TRUE, << >>), <<Event("click", << >>)>>)
  ELSE Done(el, ActionResult(TRUE, << >>), << >>)

\* The body of fillFieldByRef for the element found.  A <button> has a `value`
\* property that is set, an <a> has none.
fill(el, value) ==
  IF el.kind = "select" THEN fillSelect(el, value)
  ELSE IF el.kind = "textarea" THEN fillTextInput(el, value)
  ELSE IF el.kind = "checkbox" THEN fillCheckbox(el, value)
  ELSE IF el.kind = "radio"
  THEN IF ~el.checked
       THEN Done(click(el), ActionResult(TRUE, << >>), <<Event("click", << >>)>>)
       ELSE Done(el, ActionResult(TRUE, << >>), << >>)
  ELSE IF el.kind = "file"
  THEN Done(el, ActionResult(FALSE, <<"Cannot programmatically fill file inputs">>),
            << >>)
  ELSE IF el.kind \in {"input", "hidden", "submit"} THEN fillTextInput(el, value)
  ELSE IF el.kind = "button"
  THEN Done(el, ActionResult(TRUE, << >>),
            <<Event("input", String(value)), Event("change", String(value))>>)
  ELSE Done(el, ActionResult(FALSE, <<"Cannot fill element type", "A">>), << >>)

\* Variant of notFound that does not name the reference.
notFound_Unnamed(ref) == ActionResult(FALSE, <<"Element not found", << >>>>)

\* { ok: false, error: `Element ${ref} not found` }
notFound(ref) == ActionResult(FALSE, <<"Element not found", ref>>)

\* The page d with the node of el replaced by el (a detached node is not in
\* the page).
replaced(d, el) ==
  [i \in 1..Len(d) |-> IF d[i].id = el.id /\ d[i].kind = el.kind THEN el ELSE d[i]]

\* The try block of fillFieldByRef and of clickElementByRef: what the body
\* returns, or what the catch clause makes of what it throws.
try(res) == IF isThrown(res) THEN caught(res.thrown) ELSE res

\* The step of a fill or click that throws: none, or the k-th thing it does to
\* the element (a native click, a dispatched event).
NoThrow == 0

\* The errors a native step throws.
Errors == {"TypeError", "InvalidStateError"}

\* The element as step k of a fill finds it: a click has not acted yet, the
\* value of a select or of a text control is set before the event is
\* dispatched.
interrupted(el, done, k) ==
  IF done.events[k].type = "click" \/ el.kind = "button" THEN el
  ELSE IF el.kind = "select" THEN done.el
  ELSE [el EXCEPT !.text = done.events[k].value]

\* A body in which step k throws err: it stops there.
throwing(el, done, k, err) ==
  IF k = NoThrow \/ k > Len(done.events) THEN done
  ELSE Done(interrupted(el, done, k), Throw(err), SubSeq(done.events, 1, k - 1))

\* fillFieldByRef(ref, value): its result.
fillFieldByRef(d, rm, ref, value) ==
  LET el == getElementByRef(rm, ref)
  IN IF el = {} THEN notFound(ref)
     ELSE try(fill(elementOf(d, Entry(el)), value).result)

\* fillFieldByRef(ref, value): the page after it.
fillEffect(d, rm, ref, value) ==
  LET el == getElementByRef(rm, ref)
  IN IF el = {} THEN d
     ELSE replaced(d, fill(elementOf(d, Entry(el)), value).el)

\* fillFieldByRef(ref, value): what it does to the element, in order.
fillEvents(d, rm, ref, value) ==
  LET el == getElementByRef(rm, ref)
  IN IF el = {} THEN << >>
     ELSE fill(elementOf(d, Entry(el)), value).events

\* clickElementByRef(ref): its result.
clickElementByRef(rm, ref) ==
  LET el == getElementByRef(rm, ref)
  IN IF el = {} THEN notFound(ref)
     ELSE ActionResult(TRUE, << >>)

\* clickElementByRef(ref): the page after it.
clickEffect(d, rm, ref) ==
  LET el == getElementByRef(rm, ref)
  IN IF el = {} THEN d
     ELSE replaced(d, click(elementOf(d, Entry(el))))

\* clickElementByRef(ref): what it does to the element.
clickEvents(rm, ref) ==
  IF getElementByRef(rm, ref) = {} THEN << >> ELSE <<Event("click", << >>)>>

(* --------------------------- handleCommand ---------------------------- *)
backgroundVars == <<sessions, readyState, targetTabId, openTabs, nextSessionId,
                    stopRequests, pending, emitted, delivered, sent, closedBy,
                    response, swallowed>>

\* The session id a command carries: a session's id, or '' (see EmptySessionId).
SessionTags == SessionIds \cup {EmptySessionId}

\* The references the commands name: some that scans issue, one they never do.
CommandRefs == {Ref("f", 0), Ref("b", 0), Ref("b", 1), Ref("f", 9)}

\* Variant of Report that leaves the session id out.
Report_Untagged(type, sessionId, body, cmd) ==
  [type |-> type, sessionId |-> EmptySessionId, body |-> body, cmd |-> cmd]

\* One chrome.runtime.sendMessage(message) call of the content script; `cmd` is
\* bookkeeping: the message of the tab (by arrival) whose handling made it.
Report(type, sessionId, body, cmd) ==
  [type |-> type, sessionId |-> sessionId, body |-> body, cmd |-> cmd]

\* What handleCommand returns: { ok: true } or { error }.
CommandResponse(ok, error) == [ok |-> ok, error |-> error]

\* case 'SET_STATUS'
handleSetStatus(status, message) ==
  /\ handled < MaxCommands
  /\ handled' = handled + 1
  /\ overlay' = {setStatus(ensureOverlay(overlay), status, message)}
  /\ cmdResponse' = CommandResponse(TRUE, << >>)
  /\ UNCHANGED <<asks, reports, dom, refMap, snapshot, result, scans>>
  /\ UNCHANGED events
  /\ UNCHANGED backgroundVars

\* case 'SCAN_PAGE'
handleScanPage(sessionId) ==
  /\ handled < MaxCommands
  /\ handled' = handled + 1
  /\ overlay' = {setStatus(ensureOverlay(overlay), "running", <<"Scanning form fields...">>)}
  /\ LET scan == scanPage(refMap, dom)
     IN /\ refMap' = scan.refMap
        /\ snapshot' = {scan.snapshot}
        /\ scans' = Counted(scans)
        /\ reports' = Append(reports,
                        Report("PAGE_DATA", sessionId, scan.snapshot, handled + 1))
  /\ events' = << >>
  /\ cmdResponse' = CommandResponse(TRUE, << >>)
  /\ UNCHANGED <<asks, dom, result>>
  /\ UNCHANGED backgroundVars

\* case 'FILL_FIELD'
handleFillField(ref, value, sessionId) ==
  /\ handled < MaxCommands
  /\ handled' = handled + 1
  /\ overlay' = {setStatus(ensureOverlay(overlay), "running", <<"Filling", ref>>)}
  /\ result' = {fillFieldByRef(dom, refMap, ref, value)}
  /\ dom' = fillEffect(dom, refMap, ref, value)
  /\ events' = fillEvents(dom, refMap, ref, value)
  /\ scans' = IF dom' = dom THEN scans ELSE 0
  /\ reports' = Append(reports,
                  Report("ACTION_RESULT", sessionId,
                         fillFieldByRef(dom, refMap, ref, value), handled + 1))
  /\ cmdResponse' = CommandResponse(TRUE, << >>)
  /\ UNCHANGED <<asks, refMap, snapshot>>
  /\ UNCHANGED backgroundVars

\* case 'CLICK_ELEMENT'
handleClickElement(ref, sessionId) ==
  /\ handled < MaxCommands
  /\ handled' = handled + 1
  /\ overlay' = {setStatus(ensureOverlay(overlay), "running", <<"Clicking", ref>>)}
  /\ result' = {clickElementByRef(refMap, ref)}
  /\ dom' = clickEffect(dom, refMap, ref)
  /\ events' = clickEvents(refMap, ref)
  /\ scans' = IF dom' = dom THEN scans ELSE 0
  /\ reports' = Append(reports,
                  Report("ACTION_RESULT", sessionId,
                         clickElementByRef(refMap, ref), handled + 1))
  /\ cmdResponse' = CommandResponse(TRUE, << >>)
  /\ UNCHANGED <<asks, refMap, snapshot>>
  /\ UNCHANGED backgroundVars

\* Variant of handleAskHuman that does not wait for the gate: it sends
\* ANSWER_HUMAN with an empty answer at once.
handleAskHuman_NoAwait(question, sessionId) ==
  /\ handled < MaxCommands
  /\ handled' = handled + 1
  /\ overlay' = {showQuestion(ensureOverlay(overlay), Len(asks) + 1)}
  /\ asks' = Append(asks, Ask(sessionId, question, handled + 1))
  /\ reports' = Append(reports, Report("ANSWER_HUMAN", sessionId, << >>, handled + 1))
  /\ UNCHANGED <<cmdResponse, dom, refMap, snapshot, result, scans>>
  /\ UNCHANGED events
  /\ UNCHANGED backgroundVars

\* case 'ASK_HUMAN', up to `await ensureOverlay().showQuestion(question)`.
handleAskHuman(question, sessionId) ==
  /\ handled < MaxCommands
  /\ handled' = handled + 1
  /\ overlay' = {showQuestion(ensureOverlay(overlay), Len(asks) + 1)}
  /\ asks' = Append(asks, Ask(sessionId, question, handled + 1))
  /\ UNCHANGED <<reports, cmdResponse, dom, refMap, snapshot, result, scans>>
  /\ UNCHANGED events
  /\ UNCHANGED backgroundVars

\* Variant of handleUnknownCommand that drops the message silently.
handleUnknownCommand_Silent(type) ==
  /\ handled < MaxCommands
  /\ handled' = handled + 1
  /\ cmdResponse' = CommandResponse(TRUE, << >>)
  /\ UNCHANGED <<overlay, asks, reports, dom, refMap, snapshot, result, scans>>
  /\ UNCHANGED events
  /\ UNCHANGED backgroundVars

\* default: { error: `Unknown command: ${message.type}` }
handleUnknownCommand(type) ==
  /\ handled < MaxCommands
  /\ handled' = handled + 1
  /\ cmdResponse' = CommandResponse(FALSE, <<"Unknown command", type>>)
  /\ UNCHANGED <<overlay, asks, reports, dom, refMap, snapshot, result, scans>>
  /\ UNCHANGED events
  /\ UNCHANGED backgroundVars

(* ------------------------- the human at the overlay ------------------- *)
\* Variant of truthy that accepts the empty string.
truthy_Always(str) == TRUE

\* `if (answer)`: a string is truthy when it is not empty.
truthy(str) == str # << >>

\* The human edits the input of the displayed question.
typeAnswer(text) ==
  /\ overlay # {}
  /\ ensureOverlay(overlay).questionSection # 0
  /\ ensureOverlay(overlay).input # text
  /\ overlay' = {[ensureOverlay(overlay) EXCEPT !.input = text]}
  /\ UNCHANGED <<asks, reports, cmdResponse, handled, dom, refMap, snapshot, result,
                 scans>>
  /\ UNCHANGED events
  /\ UNCHANGED backgroundVars

\* submit() of the displayed question: with a truthy trimmed answer the
\* question section is emptied and the gate resolved; the ASK_HUMAN invocation
\* awaiting an unsettled gate then resumes (in the same task), sends
\* ANSWER_HUMAN and returns { ok: true }.
submit ==
  /\ overlay # {}
  /\ LET o == ensureOverlay(overlay)
         g == o.questionSection
         answer == trim(o.input)
     IN /\ g # 0
        /\ IF truthy(answer)
           THEN /\ overlay' = {[o EXCEPT !.questionSection = 0, !.input = << >>]}
                /\ asks' = [asks EXCEPT ![g] = resolve(@, answer)]
                /\ IF asks[g].settled
                   THEN UNCHANGED <<reports, cmdResponse>>
                   ELSE /\ reports' = Append(reports,
                                        Report("ANSWER_HUMAN", asks[g].sessionId,
                                               asks'[g].answer, asks[g].cmd))
                        /\ cmdResponse' = CommandResponse(TRUE, << >>)
           ELSE UNCHANGED <<overlay, asks, reports, cmdResponse>>
  /\ UNCHANGED <<handled, dom, refMap, snapshot, result, scans>>
  /\ UNCHANGED events
  /\ UNCHANGED backgroundVars

\* submitBtn 'click'
clickSubmit == submit

\* input 'keydown': `if (e.key === 'Enter') submit()`
keydown(key) ==
  /\ overlay # {}
  /\ ensureOverlay(overlay).questionSection # 0
  /\ IF key = "Enter" THEN submit ELSE UNCHANGED vars

\* minimizeBtn 'click': e.stopPropagation(); this.toggleMinimize()
clickMinimize ==
  /\ overlay # {}
  /\ overlay' = {toggleMinimize(ensureOverlay(overlay))}
  /\ UNCHANGED <<asks, reports, cmdResponse, handled, dom, refMap, snapshot, result,
                 scans>>
  /\ UNCHANGED events
  /\ UNCHANGED backgroundVars

\* The body of the overlay is rendered: what it holds can be typed into and
\* clicked.
bodyShown == overlay # {} /\ ensureOverlay(overlay).bodySection.display # "none"

(* ------------------------------ the page ------------------------------ *)
\* The page changes under the content script: it becomes d.
pageChanges(d) ==
  /\ d # dom
  /\ dom' = d
  /\ scans' = 0
  /\ UNCHANGED <<overlay, asks, reports, cmdResponse, handled, refMap, snapshot,
                 result>>
  /\ UNCHANGED events
  /\ UNCHANGED backgroundVars

\* The pages one insertion or removal of an element away from d.
Edits(d) ==
  {SubSeq(d, 1, i - 1) \o SubSeq(d, i + 1, Len(d)) : i \in 1..Len(d)}
    \cup {SubSeq(d, 1, i) \o <<[e EXCEPT !.id = n]>> \o SubSeq(d, i + 1, Len(d)) :
            i \in 0..(IF Len(d) < MaxNodes THEN Len(d) ELSE -1), e \in Elements,
            n \in NodeIds \ {d[j].id : j \in 1..Len(d)}}

\* The pages the Orchestrator is run on: a form of two fields, the same with
\* its first field gone, and a page with a button and a link.
SamplePages ==
  {<< >>,
   <<Element(1, "input", TRUE, << >>), Element(2, "submit", TRUE, <<"a">>)>>,
   <<Element(2, "submit", TRUE, <<"a">>)>>,
   <<Element(1, "button", TRUE, <<"a">>), Element(2, "rolelink", TRUE, <<"a">>)>>}

(* ------------------- the dom-scanner's exported functions ------------- *)
\* A call of scanPage()
callScanPage ==
  /\ LET scan == scanPage(refMap, dom)
     IN /\ refMap' = scan.refMap
        /\ snapshot' = {scan.snapshot}
  /\ scans' = Counted(scans)
  /\ events' = << >>
  /\ UNCHANGED <<overlay, asks, reports, cmdResponse, handled, dom, result>>
  /\ UNCHANGED backgroundVars

\* A call of getElementByRef(ref)
callGetElementByRef(ref) ==
  /\ result' = getElementByRef(refMap, ref)
  /\ events' = << >>
  /\ UNCHANGED <<overlay, asks, reports, cmdResponse, handled, dom, refMap, snapshot,
                 scans>>
  /\ UNCHANGED backgroundVars

\* A call of fillFieldByRef(ref, value)
callFillFieldByRef(ref, value) ==
  /\ result' = {fillFieldByRef(dom, refMap, ref, value)}
  /\ dom' = fillEffect(dom, refMap, ref, value)
  /\ events' = fillEvents(dom, refMap, ref, value)
  /\ scans' = IF dom' = dom THEN scans ELSE 0
  /\ UNCHANGED <<overlay, asks, reports, cmdResponse, handled, refMap, snapshot>>
  /\ UNCHANGED backgroundVars

\* A call of clickElementByRef(ref)
callClickElementByRef(ref) ==
  /\ result' = {clickElementByRef(refMap, ref)}
  /\ dom' = clickEffect(dom, refMap, ref)
  /\ events' = clickEvents(refMap, ref)
  /\ scans' = IF dom' = dom THEN scans ELSE 0
  /\ UNCHANGED <<overlay, asks, reports, cmdResponse, handled, refMap, snapshot>>
  /\ UNCHANGED backgroundVars

\* A call of fillFieldByRef(ref, value) in which step k of the body throws err
callFillFieldByRefThrowing(ref, value, k, err) ==
  /\ getElementByRef(refMap, ref) # {}
  /\ LET el == elementOf(dom, Entry(getElementByRef(refMap, ref)))
         body == fill(el, value)
         done == throwing(el, body, k, err)
     IN /\ k \in 1..Len(body.events)
        /\ result' = {try(done.result)}
        /\ dom' = replaced(dom, done.el)
        /\ events' = done.events
  /\ scans' = IF dom' = dom THEN scans ELSE 0
  /\ UNCHANGED <<overlay, asks, reports, cmdResponse, handled, refMap, snapshot>>
  /\ UNCHANGED backgroundVars

\* A call of clickElementByRef(ref) in which el.click() throws err
callClickElementByRefThrowing(ref, err) ==
  /\ getElementByRef(refMap, ref) # {}
  /\ result' = {try(Throw(err))}
  /\ events' = << >>
  /\ UNCHANGED <<overlay, asks, reports, cmdResponse, handled, dom, refMap, snapshot,
                 scans>>
  /\ UNCHANGED backgroundVars

(* ------------- handleMessage: results and unknown messages ------------ *)
ResultTypes == {"ANSWER_HUMAN", "PAGE_DATA", "ACTION_RESULT"}

\* The backendClient call each result type awaits.
ResultCall(type) ==
  CASE type = "ANSWER_HUMAN" -> "answerQuestion"
    [] type = "PAGE_DATA" -> "sendPageData"
    [] type = "ACTION_RESULT" -> "sendActionResult"

\* A handleMessage invocation for a result, suspended at its backendClient
\* call, with the session id of the message's payload.
ResultHandler(type, tabId, sessionId) ==
  [type |-> type, tabId |-> tabId, at |-> ResultCall(type), existing |-> {},
   live |-> FALSE, sessionId |-> sessionId]

\* What the onMessage listener replies when handleMessage returns { error } or
\* rejects (`sendResponse({ error: String(err) })`).
ErrorResponse(type, tabId, error) ==
  [type |-> type, tabId |-> tabId, ok |-> FALSE, sessionId |-> EmptySessionId,
   error |-> error]

\* ANSWER_HUMAN, PAGE_DATA or ACTION_RESULT arrives from the content script of
\* a tab: the request to the server is issued and awaited.
ResultBegin(type, tabId, sessionId) ==
  /\ tabId \in openTabs
  /\ BagCardinality(pending) < MaxInFlight
  /\ pending' = pending (+) SetToBag({ResultHandler(type, tabId, sessionId)})
  /\ UNCHANGED <<sessions, readyState, targetTabId, openTabs, nextSessionId,
                 stopRequests, emitted, delivered, sent, closedBy, response>>
  /\ UNCHANGED swallowed
  /\ UNCHANGED contentVars

\* The server accepts the request: `return { ok: true }`.
ResultAccepted(h) ==
  /\ h \in BagToSet(pending)
  /\ h.type \in ResultTypes
  /\ pending' = pending (-) SetToBag({h})
  /\ response' = Response(h.type, h.tabId, TRUE, EmptySessionId)
  /\ UNCHANGED <<sessions, readyState, targetTabId, openTabs, nextSessionId,
                 stopRequests, emitted, delivered, sent, closedBy>>
  /\ UNCHANGED swallowed
  /\ UNCHANGED contentVars

\* Variant of ResultRejected that gives the session up: the stream of the tab's
\* entry is closed and the entry deleted.
ResultRejected_Teardown(h) ==
  /\ h \in BagToSet(pending)
  /\ h.type \in ResultTypes
  /\ pending' = pending (-) SetToBag({h})
  /\ response' = ErrorResponse(h.type, h.tabId, <<"Backend", h.at>>)
  /\ readyState' = [es \in DOMAIN readyState |->
                      IF targetTabId[es] = h.tabId THEN "CLOSED" ELSE readyState[es]]
  /\ sessions' = MapDelete(sessions, h.tabId)
  /\ UNCHANGED <<targetTabId, openTabs, nextSessionId, stopRequests, emitted,
                 delivered, sent, closedBy>>
  /\ UNCHANGED swallowed
  /\ UNCHANGED contentVars

\* The server answers with an error status (or the fetch fails): request()
\* throws, the awaiting handleMessage rejects, and the listener's catch replies
\* { error: String(err) }.
ResultRejected(h) ==
  /\ h \in BagToSet(pending)
  /\ h.type \in ResultTypes
  /\ pending' = pending (-) SetToBag({h})
  /\ response' = ErrorResponse(h.type, h.tabId, <<"Backend", h.at>>)
  /\ UNCHANGED <<sessions, readyState, targetTabId, openTabs, nextSessionId,
                 stopRequests, emitted, delivered, sent, closedBy>>
  /\ UNCHANGED swallowed
  /\ UNCHANGED contentVars

\* default: { error: `Unknown message type: ${message.type}` }
handleUnknownMessage(type, tabId) ==
  /\ tabId \in openTabs
  /\ response' = ErrorResponse(type, tabId, <<"Unknown message type", type>>)
  /\ UNCHANGED <<sessions, readyState, targetTabId, openTabs, nextSessionId,
                 stopRequests, pending, emitted, delivered, sent, closedBy>>
  /\ UNCHANGED swallowed
  /\ UNCHANGED contentVars

(* ------------------------- further specifications --------------------- *)
\* Message types that neither handleMessage nor handleCommand knows.
UnknownTypes == {"PING", "RESUME"}

\* The relay and the messages it is sent: activation, stop, results and
\* unknown messages (one handleMessage invocation in progress at a time), with
\* tab closure and stream failure at any time.
MessageNext ==
  \/ \E t \in Tabs : pending = EmptyBag /\ ActivateBegin(t)
  \/ \E h \in BagToSet(pending) : ActivateAfterStop(h)
  \/ \E h \in BagToSet(pending) : ActivateStarted(h)
  \/ \E h \in BagToSet(pending) : ActivateStartFailed(h)
  \/ \E t \in Tabs : pending = EmptyBag /\ StopNoSession(t)
  \/ \E t \in Tabs : pending = EmptyBag /\ StopBegin(t)
  \/ \E h \in BagToSet(pending) : StopAfterStop(h)
  \/ \E t \in Tabs : onRemoved(t)
  \/ \E es \in SessionIds : StreamError(es)
  \/ \E ty \in ResultTypes, t \in Tabs, s \in SessionTags :
       pending = EmptyBag /\ ResultBegin(ty, t, s)
  \/ \E h \in BagToSet(pending) : ResultAccepted(h)
  \/ \E h \in BagToSet(pending) : ResultRejected(h)
  \/ \E ty \in UnknownTypes, t \in Tabs : handleUnknownMessage(ty, t)

MessageSpec == Init /\ [][MessageNext]_vars

\* Both ends of the message channel between the page and the background:
\* activation and stop at the relay (one at a time), status messages at the
\* content script, and messages of unknown type at either.
TagNext ==
  \/ \E t \in Tabs : pending = EmptyBag /\ ActivateBegin(t)
  \/ \E h \in BagToSet(pending) : ActivateAfterStop(h)
  \/ \E h \in BagToSet(pending) : ActivateStarted(h)
  \/ \E t \in Tabs : pending = EmptyBag /\ StopBegin(t)
  \/ \E h \in BagToSet(pending) : StopAfterStop(h)
  \/ \E ty \in UnknownTypes, t \in Tabs : handleUnknownMessage(ty, t)
  \/ \E st \in OverlayStatus : handleSetStatus(st, NoMessage)
  \/ \E ty \in UnknownTypes : handleUnknownCommand(ty)

TagSpec == Init /\ [][TagNext]_vars

\* The content script of one tab: the commands it is sent, the human at the
\* overlay and the page changing under it.
PageNext ==
  \/ \E st \in OverlayStatus : handleSetStatus(st, NoMessage)
  \/ \E s \in SessionIds : handleScanPage(s)
  \/ \E r \in CommandRefs, s \in SessionIds : handleFillField(r, <<"a">>, s)
  \/ \E r \in CommandRefs, s \in SessionIds : handleClickElement(r, s)
  \/ \E q \in {"q1", "q2"}, s \in SessionIds : handleAskHuman(q, s)
  \/ \E ty \in UnknownTypes : handleUnknownCommand(ty)
  \/ \E text \in Texts : typeAnswer(text)
  \/ clickSubmit
  \/ \E key \in {"Enter", "a"} : keydown(key)
  \/ \E d \in SamplePages : pageChanges(d)

PageSpec == Init /\ [][PageNext]_vars

\* The Orchestrator and the human at an overlay that can be collapsed: the
\* page is loaded once, commands arrive in any order, and the human types,
\* submits and toggles the minimize control (typing and submitting need the
\* body to be rendered).
GateNext ==
  \/ \E d \in SamplePages : dom = << >> /\ pageChanges(d)
  \/ \E st \in OverlayStatus : handleSetStatus(st, NoMessage)
  \/ \E s \in SessionIds : handleScanPage(s)
  \/ \E r \in CommandRefs, s \in SessionIds : handleFillField(r, <<"a">>, s)
  \/ \E r \in CommandRefs, s \in SessionIds : handleClickElement(r, s)
  \/ \E q \in {"q1", "q2"}, s \in SessionIds : handleAskHuman(q, s)
  \/ \E text \in Texts : bodyShown /\ typeAnswer(text)
  \/ bodyShown /\ clickSubmit
  \/ \E key \in {"Enter", "a"} : bodyShown /\ keydown(key)
  \/ clickMinimize

GateSpec == Init /\ [][GateNext]_vars

\* The references looked up on the changing page.
ScanRefs == {Ref("f", 0), Ref("b", 0)}

\* The dom-scanner on a page that changes in every way.
ScanNext ==
  \/ callScanPage
  \/ \E r \in ScanRefs : callGetElementByRef(r)
  \/ \E r \in ScanRefs : callFillFieldByRef(r, <<"a">>)
  \/ \E r \in ScanRefs : callClickElementByRef(r)
  \/ \E d \in Edits(dom) : pageChanges(d)

ScanSpec == Init /\ [][ScanNext]_vars

\* The options of the selects filled: their display texts (as option.text
\* gives them, without surrounding white space) and their values.
OptionTexts == {<< >>, <<"a">>, <<"b">>, <<"A", "b">>, <<"b", "a", "b">>}
OptionValues == {<< >>, <<"a">>, <<"1">>}
Options == {Option(t, v) : t \in OptionTexts, v \in OptionValues}

\* The form controls filled: checkboxes, enabled and disabled; selects of at
\* most MaxOptions options with one of them selected; text inputs, textareas
\* and a file input.
Controls ==
  {Checkbox(1, c, dis) : c, dis \in BOOLEAN}
    \cup UNION {{Select(1, os, k) : k \in (IF os = << >> THEN {0} ELSE 1..Len(os))} :
                  os \in UNION {[1..n -> Options] : n \in 0..MaxOptions}}
    \cup {Element(1, k, TRUE, t) : k \in {"input", "textarea"}, t \in {<< >>, <<"b">>}}
    \cup {Element(1, "file", TRUE, << >>)}

\* The values the controls are filled with.
FillValues ==
  {<< >>, <<"a">>, <<"A">>, <<"b">>, <<"a", "b">>, <<" ", "a">>, <<"1">>,
   <<"y", "e", "s">>, <<"Y", "e", "S">>, <<"T", "R", "U", "E">>, <<"n", "o">>}

\* The executor on a page of one form control: the page is loaded, scanned,
\* and its control filled and clicked any number of times.
FillNext ==
  \/ \E c \in Controls : dom = << >> /\ pageChanges(<<c>>)
  \/ callScanPage
  \/ \E v \in FillValues : callFillFieldByRef(Ref("f", 0), v)
  \/ callClickElementByRef(Ref("f", 0))

FillSpec == Init /\ [][FillNext]_vars

\* The elements whose fills and clicks are followed when steps throw: one
\* of each branch of fillFieldByRef.
ThrowControls ==
  {Checkbox(1, c, FALSE) : c \in BOOLEAN}
    \cup {Select(1, <<Option(<<"a">>, <<"1">>), Option(<<"b">>, <<"a">>)>>, 1)}
    \cup {Element(1, k, TRUE, <<"b">>) : k \in {"input", "textarea", "radio", "file",
                                                "button"}}

ThrowRefs == {Ref("f", 0), Ref("b", 0)}

\* The values filled: strings, and a value that is not one.
ThrowValues == {<<"a">>, <<"y", "e", "s">>, undefined}

\* The steps of a fill that may throw: any of the things it does.
Steps == 1..4

\* The executor on a page of one element, with native steps that throw.
ThrowNext ==
  \/ \E c \in ThrowControls : dom = << >> /\ pageChanges(<<c>>)
  \/ callScanPage
  \/ \E r \in ThrowRefs, v \in ThrowValues : callFillFieldByRef(r, v)
  \/ \E r \in ThrowRefs : callClickElementByRef(r)
  \/ \E r \in ThrowRefs, v \in ThrowValues, k \in Steps, err \in Errors :
       callFillFieldByRefThrowing(r, v, k, err)
  \/ \E r \in ThrowRefs, err \in Errors : callClickElementByRefThrowing(r, err)

ThrowSpec == Init /\ [][ThrowNext]_vars

\* The events whose relaying as a status is followed: status events with each
\* known state, with no state, with states the table does not list, and
\* events of no or of an unknown type.
StatusPayloads ==
  {Obj("status", st) : st \in {"running", "waiting_for_human", "done", "error",
                                "stopped", "idle", "", "paused", "constructor"}}
    \cup {Obj("", ""), Obj("progress", ""), Obj("progress", "done")}

\* One session on tab 1 whose stream carries such events.
StatusNext ==
  \/ sessions = << >> /\ pending = EmptyBag /\ ActivateBegin(1)
  \/ \E h \in BagToSet(pending) : ActivateStarted(h)
  \/ \E es \in SessionIds, data \in StatusPayloads : ServerEmit(es, data)
  \/ \E es \in SessionIds : StreamMessage(es)

StatusSpec == Init /\ [][StatusNext]_vars


\* the messages sent to a tab reach handleCommand in the order they were sent.
PageTab == 1
Arrived(type) ==
  /\ handled < Len(sent[PageTab])
  /\ sent[PageTab][handled + 1].type = type
NextCommand == sent[PageTab][handled + 1]

\* What the server pushes on the stream of a session at work.
SessionPayloads ==
  {Obj("scan_request", ""), Obj("fill_field", ""), Obj("click_element", ""),
   Obj("status", "done")}

\* The references the server names: one that a scan issues, one that none does.
SessionRefs == {Ref("f", 0), Ref("f", 9)}

\* The form the session works on.
SessionPage == <<Element(1, "input", TRUE, << >>)>>

\* One session from end to end: a tab is activated, the server pushes events,
\* the relay forwards them, the content script of the tab handles them in
\* order and reports, the relay passes the reports on to the server, which
\* accepts or rejects them; the stream may fail at any time.
SessionNext ==
  \/ (pending = EmptyBag /\ MapGet(sessions, PageTab) = {}) /\ ActivateBegin(PageTab)
  \/ \E h \in BagToSet(pending) : ActivateStarted(h)
  \/ \E es \in SessionIds, data \in SessionPayloads : ServerEmit(es, data)
  \/ \E es \in SessionIds : StreamMessage(es)
  \/ \E es \in SessionIds : StreamError(es)
  \/ Arrived("SET_STATUS") /\ handleSetStatus(NextCommand.status, NoMessage)
  \/ Arrived("SCAN_PAGE") /\ handleScanPage(NextCommand.sessionId)
  \/ \E r \in SessionRefs :
       Arrived("FILL_FIELD") /\ handleFillField(r, <<"a">>, NextCommand.sessionId)
  \/ \E r \in SessionRefs :
       Arrived("CLICK_ELEMENT") /\ handleClickElement(r, NextCommand.sessionId)
  \/ dom = << >> /\ pageChanges(SessionPage)
  \/ \E i \in 1..Len(reports) :
       (pending = EmptyBag /\ reports[i].type = "ACTION_RESULT")
         /\ ResultBegin("ACTION_RESULT", PageTab, reports[i].sessionId)
  \/ \E h \in BagToSet(pending) : ResultAccepted(h)
  \/ \E h \in BagToSet(pending) : ResultRejected(h)

SessionSpec == Init /\ [][SessionNext]_vars

\* An ACTIVATE for tab t has been issued: its handler is in progress or has
\* started a session for the tab.
Issued(t) ==
  \/ \E h \in BagToSet(pending) : h.type = "ACTIVATE" /\ h.tabId = t
  \/ \E s \in DOMAIN targetTabId : targetTabId[s] = t

\* One activation of tab 1 and the STOPs that follow it: ACTIVATE is issued
\* once, STOP messages arrive only after it was issued (while its handler
\* awaits the start response, or later), and the session's stream carries
\* events.
StopRaceNext ==
  \/ ~Issued(PageTab) /\ ActivateBegin(PageTab)
  \/ \E h \in BagToSet(pending) : ActivateStarted(h)
  \/ Issued(PageTab) /\ StopNoSession(PageTab)
  \/ Issued(PageTab) /\ StopBegin(PageTab)
  \/ \E h \in BagToSet(pending) : StopAfterStop(h)
  \/ \E es \in SessionIds, data \in RacePayloads : ServerEmit(es, data)
  \/ \E es \in SessionIds : StreamMessage(es)

StopRaceSpec == Init /\ [][StopRaceNext]_vars

\* The relay with a server whose calls may fail: activation and stop, one
\* handleMessage invocation at a time, each stop and start request answered
\* or failing; tab closure and stream failure at any time.
FailNext ==
  \/ \E t \in Tabs : pending = EmptyBag /\ ActivateBegin(t)
  \/ \E h \in BagToSet(pending) : ActivateAfterStop(h)
  \/ \E h \in BagToSet(pending) : ActivateAfterStopFailed(h)
  \/ \E h \in BagToSet(pending) : ActivateStarted(h)
  \/ \E h \in BagToSet(pending) : ActivateStartFailed(h)
  \/ \E t \in Tabs : pending = EmptyBag /\ StopBegin(t)
  \/ \E h \in BagToSet(pending) : StopAfterStop(h)
  \/ \E h \in BagToSet(pending) : StopAfterStopFailed(h)
  \/ \E t \in Tabs : onRemoved(t)
  \/ \E es \in SessionIds : onRemovedStopFailed(es)
  \/ \E es \in SessionIds : StreamError(es)

FailSpec == Init /\ [][FailNext]_vars

(* ====================================================================== *)
(*                               The claims                               *)
(* ====================================================================== *)
CommandTypes == {"SCAN_PAGE", "FILL_FIELD", "CLICK_ELEMENT", "ASK_HUMAN"}

(* C1: in every reachable state, under every interleaving of the handlers
   (overlapping ACTIVATE handlers included), each tab has at most one live
   session (started, stream open, no stop requested) and at most one registry
   entry (the registry is a Map keyed by tab, so the latter holds by type). *)
C1_AtMostOneLiveSessionPerTab ==
  \A t \in Tabs : Cardinality(LiveSessions(t)) <= 1

(* C2: an ACTIVATE that arrives for a tab with a live session and whose start
   request succeeds leaves, when it returns, exactly one registry entry for the
   tab, holding the new session id, the old stream closed, exactly one stop
   request issued for the old session id, and exactly one live session. *)
C2_ReactivationReplacesSession ==
  [][\A h \in BagToSet(pending) :
       (ActivateStarted(h) /\ h.live) =>
          LET old == Entry(h.existing)
          IN /\ h.tabId \in DOMAIN sessions'
             /\ sessions'[h.tabId].sessionId = nextSessionId
             /\ sessions'[h.tabId].sessionId # old.sessionId
             /\ readyState'[old.eventSource] = "CLOSED"
             /\ stopRequests'[old.sessionId] = 1
             /\ LiveSessions(h.tabId)' = {nextSessionId}]_vars

(* C3: once an ACTIVATE handler that found an entry has issued its start
   request, the old stream is already closed and the stop request for the old
   session already issued; and a stream exists only for a session id that a
   start request has returned (none is opened while the start is awaited). *)
C3_TeardownBeforeStart ==
  /\ \A h \in BagToSet(pending) :
       (h.type = "ACTIVATE" /\ h.at = "startAutofill" /\ h.existing # {}) =>
          /\ readyState[Entry(h.existing).eventSource] = "CLOSED"
          /\ stopRequests[Entry(h.existing).sessionId] >= 1
  /\ DOMAIN readyState = 1..(nextSessionId - 1)

C3_Witness ==
  \E h \in BagToSet(pending) :
    h.type = "ACTIVATE" /\ h.at = "startAutofill" /\ h.existing # {}

(* C4: the step in which a stream's onerror runs closes that stream and leaves
   the stream's tab without a registry entry, opens no stream, and a closed
   stream is never open again. *)
C4_StreamErrorRemovesEntry ==
  [][\A es \in DOMAIN readyState :
       /\ (readyState[es] = "OPEN" /\ es \in DOMAIN closedBy'
             /\ closedBy'[es] = "onerror") =>
            /\ readyState'[es] = "CLOSED"
            /\ targetTabId[es] \notin DOMAIN sessions'
            /\ DOMAIN readyState' = DOMAIN readyState
       /\ readyState[es] = "CLOSED" => readyState'[es] = "CLOSED"]_vars

C4_Witness ==
  \E es \in DOMAIN closedBy :
    /\ closedBy[es] = "onerror"
    /\ readyState[es] = "CLOSED"
    /\ targetTabId[es] \notin DOMAIN sessions

(* C5: the step in which a tab with a registry entry is removed issues one
   stop request for the entry's session id, closes the entry's stream and
   deletes the entry, with no handleMessage invocation and no message to the
   page involved. *)
C5_TabClosureTearsDown ==
  [][\A t \in Tabs :
       (t \in openTabs /\ t \notin openTabs' /\ t \in DOMAIN sessions) =>
          /\ stopRequests'[sessions[t].sessionId] = stopRequests[sessions[t].sessionId] + 1
          /\ readyState'[sessions[t].eventSource] = "CLOSED"
          /\ t \notin DOMAIN sessions'
          /\ pending' = pending
          /\ sent' = sent]_vars

C5_Witness ==
  \E es \in DOMAIN closedBy :
    /\ closedBy[es] = "onRemoved"
    /\ targetTabId[es] \notin openTabs
    /\ targetTabId[es] \notin DOMAIN sessions
    /\ stopRequests[es] >= 1

(* C6: when a STOP handler that found an entry returns, a stop request for
   that session was issued, its stream is closed, the tab has no entry, the
   last message sent to the tab is SET_STATUS stopped, and the tab has no live
   session. *)
C6_StopEndsSession ==
  [][\A h \in BagToSet(pending) :
       StopAfterStop(h) =>
          LET s == Entry(h.existing)
          IN /\ stopRequests'[s.sessionId] >= 1
             /\ readyState'[s.eventSource] = "CLOSED"
             /\ h.tabId \notin DOMAIN sessions'
             /\ Len(sent'[h.tabId]) = Len(sent[h.tabId]) + 1
             /\ sent'[h.tabId][Len(sent'[h.tabId])].type = "SET_STATUS"
             /\ sent'[h.tabId][Len(sent'[h.tabId])].status = "stopped"
             /\ LiveSessions(h.tabId)' = {}]_vars

(* C7: a STOP handled for a tab that has no registry entry (its stream has
   errored) issues no stop request, changes neither the registry nor any
   stream, sends nothing to the page, suspends nowhere and returns
   { ok: true }. *)
C7_StopWithoutSessionIsNoOp ==
  [][\A t \in Tabs :
       ((StopNoSession(t) \/ StopBegin(t)) /\ t \notin DOMAIN sessions) =>
          /\ UNCHANGED <<sessions, stopRequests, readyState, sent, pending>>
          /\ response' = Response("STOP", t, TRUE, EmptySessionId)]_vars

C7_Witness ==
  \E t \in openTabs :
    /\ response = Response("STOP", t, TRUE, EmptySessionId)
    /\ t \notin DOMAIN sessions
    /\ nextSessionId = 2
    /\ 1 \in DOMAIN closedBy /\ closedBy[1] = "onerror" /\ targetTabId[1] = t
    /\ stopRequests[1] = 0
    /\ sent[t] = << >>
    /\ pending = EmptyBag

\* The event that the step dispatches from stream es, if it dispatches one.
Range(q) == {q[i] : i \in 1..Len(q)}
Dispatched(es) == CHOOSE e \in Range(emitted[es]) : e \notin Range(emitted'[es])

\* The step sends exactly one message, to tab t, made from event e of stream es.
SendsOne(t, es, e) ==
  /\ Len(sent'[t]) = Len(sent[t]) + 1
  /\ SubSeq(sent'[t], 1, Len(sent[t])) = sent[t]
  /\ sent'[t][Len(sent'[t])].origin = es
  /\ sent'[t][Len(sent'[t])].seq = e.n
  /\ \A u \in Tabs \ {t} : sent'[u] = sent[u]

(* C8 (as stated): every dispatched event whose payload parses makes exactly
   one message, sent to the tab the stream was opened for; an event whose
   payload does not parse sends nothing; either way the registry and the
   streams are unchanged. *)
C8_OneCommandPerParseableEvent ==
  [][\A es \in DOMAIN delivered :
       delivered'[es] = delivered[es] + 1 =>
          /\ IF Dispatched(es).data.json # "invalid"
             THEN SendsOne(targetTabId[es], es, Dispatched(es))
             ELSE sent' = sent
          /\ UNCHANGED <<sessions, readyState>>]_vars

(* C8 (amended): every dispatched event whose payload parses to a value other
   than null makes exactly one message, sent to the tab the stream was opened
   for; an event whose payload does not parse, or parses to null, sends
   nothing; either way the registry and the streams are unchanged. *)
C8_OneCommandPerNonNullEvent ==
  [][\A es \in DOMAIN delivered :
       delivered'[es] = delivered[es] + 1 =>
          /\ IF Dispatched(es).data.json = "object"
             THEN SendsOne(targetTabId[es], es, Dispatched(es))
             ELSE sent' = sent
          /\ UNCHANGED <<sessions, readyState>>]_vars

C8_Witness ==
  \E es \in DOMAIN delivered :
    /\ delivered[es] = 2
    /\ Cardinality({i \in 1..Len(sent[targetTabId[es]]) :
                      sent[targetTabId[es]][i].origin = es
                        /\ sent[targetTabId[es]][i].seq > 0}) = 1

(* C9: the messages sent to a tab that were made from events of one stream
   appear in the order in which the server emitted those events. *)
C9_CommandsInStreamOrder ==
  \A t \in Tabs : \A i, j \in 1..Len(sent[t]) :
    (i < j /\ sent[t][i].origin = sent[t][j].origin
       /\ sent[t][i].seq > 0 /\ sent[t][j].seq > 0) =>
      sent[t][i].seq < sent[t][j].seq

C9_Witness ==
  \E t \in Tabs : \E i, j \in 1..Len(sent[t]) :
     /\ i < j /\ sent[t][i].origin = sent[t][j].origin
     /\ sent[t][i].seq = 1 /\ sent[t][j].seq = 2

(* C10: every scan, fill, click and ask message carries the session id of the
   session whose stream the originating event arrived on. *)
C10_CommandsCarryOwningSession ==
  \A t \in Tabs : \A i \in 1..Len(sent[t]) :
    sent[t][i].type \in CommandTypes => sent[t][i].sessionId = sent[t][i].origin

\* The step appends exactly one report, of the given type, session id and body.
ReportsOne(type, sessionId, body) ==
  /\ Len(reports') = Len(reports) + 1
  /\ SubSeq(reports', 1, Len(reports)) = reports
  /\ reports'[Len(reports')].type = type
  /\ reports'[Len(reports')].sessionId = sessionId
  /\ reports'[Len(reports')].body = body

\* The gates that the step settles.
Settled == {g \in 1..Len(asks) : ~asks[g].settled /\ asks'[g].settled}

(* C11: the handling of a scan command sends exactly one PAGE_DATA with the
   snapshot the scan returned, of a fill or click command exactly one
   ACTION_RESULT with the executor's result, each tagged with the session id
   the command carried; an ask command sends nothing until its gate is
   resolved and then exactly one ANSWER_HUMAN with the gate's answer and the
   command's session id; a setStatus command sets the overlay's status and
   sends nothing; and no message of the tab is ever answered by two reports. *)
C11_OneReportPerCommand ==
  [][/\ \A s \in SessionTags :
          /\ handleScanPage(s) => ReportsOne("PAGE_DATA", s, Entry(snapshot'))
          /\ \A r \in CommandRefs, v \in Texts :
               handleFillField(r, v, s) => ReportsOne("ACTION_RESULT", s, Entry(result'))
          /\ \A r \in CommandRefs :
               handleClickElement(r, s) => ReportsOne("ACTION_RESULT", s, Entry(result'))
          /\ \A q \in {"q1", "q2"} : handleAskHuman(q, s) => reports' = reports
     /\ \A g \in Settled :
          ReportsOne("ANSWER_HUMAN", asks[g].sessionId, asks'[g].answer)
     /\ \A st \in OverlayStatus :
          handleSetStatus(st, NoMessage) =>
            /\ reports' = reports
            /\ Entry(overlay').statusIcon = st
     /\ \A i, j \in 1..Len(reports') :
          reports'[i].cmd = reports'[j].cmd => i = j
     /\ \A i \in 1..Len(reports') : reports'[i].cmd \in 1..handled']_vars

C11_Witness ==
  /\ Len(reports) = 2
  /\ reports[1].type = "PAGE_DATA" /\ reports[1].sessionId = 1
  /\ Len(reports[1].body.fields) = 2
  /\ reports[2].type = "ANSWER_HUMAN" /\ reports[2].sessionId = 2
  /\ reports[2].body = <<"a">>

(* C12: a message of unknown type is answered by handleMessage, and a command
   of unknown type by handleCommand, with an error that names the type, and
   changes nothing else: not the registry, the streams, the requests to the
   server, the handlers in progress or the messages sent to the page, and not
   the overlay, the gates, the reports, the reference table or the page. *)
C12_UnknownTagIsExplicitError ==
  [][/\ \A ty \in UnknownTypes, t \in Tabs :
          handleUnknownMessage(ty, t) =>
            /\ ~response'.ok
            /\ response'.error = <<"Unknown message type", ty>>
            /\ UNCHANGED <<sessions, readyState, targetTabId, stopRequests,
                           nextSessionId, pending, sent, emitted>>
            /\ UNCHANGED swallowed
            /\ UNCHANGED contentVars
     /\ \A ty \in UnknownTypes :
          handleUnknownCommand(ty) =>
            /\ ~cmdResponse'.ok
            /\ cmdResponse'.error = <<"Unknown command", ty>>
            /\ UNCHANGED <<overlay, asks, reports, refMap, dom>>
            /\ UNCHANGED events
            /\ UNCHANGED backgroundVars]_vars

C12_Witness ==
  /\ ~response.ok /\ "error" \in DOMAIN response
  /\ response.error = <<"Unknown message type", "PING">>
  /\ DOMAIN sessions # {}
  /\ cmdResponse = CommandResponse(FALSE, <<"Unknown command", "RESUME">>)
  /\ overlay # {} /\ Entry(overlay).statusIcon = "waiting"

\* The session ids the registry holds.
Registered == {sessions[t].sessionId : t \in DOMAIN sessions}

(* C13: when the handling of a result (ANSWER_HUMAN, PAGE_DATA, ACTION_RESULT)
   for a session that was started and is no longer in the registry completes,
   whether the server accepted or rejected the request, the registry is
   unchanged and the reply is { ok: true }, not an error. *)
C13_LateResultIsNoOp ==
  [][\A h \in BagToSet(pending) :
       ((ResultAccepted(h) \/ ResultRejected(h))
          /\ h.sessionId \in DOMAIN readyState
          /\ h.sessionId \notin Registered) =>
         /\ sessions' = sessions
         /\ response'.ok]_vars

(* C14: in every state in which the overlay exists, the activation button is
   disabled and hidden and the stop button shown exactly when the status last
   set is running or waiting; otherwise (idle from construction, done, error,
   stopped) the activation button is enabled and shown and the stop button
   hidden. *)
C14_ControlsFollowStatus ==
  \A o \in overlay :
    LET active == o.statusIcon \in {"running", "waiting"}
    IN /\ o.autoFillBtn.disabled = active
       /\ (o.autoFillBtn.display = "none") = active
       /\ (o.stopBtn.display # "none") = active

C14_Witness ==
  \E o \in overlay :
    /\ o.statusIcon = "waiting"
    /\ o.autoFillBtn.disabled /\ o.stopBtn.display = "block"
    /\ handled = 2 /\ asks = << >>

\* The text has a character that is not white space.
Nonblank(text) == \E k \in 1..Len(text) : text[k] # " "

(* C15: a settled gate never changes again; a gate is settled only in a step
   taken while its question is displayed and its input holds text that is not
   blank, and that step takes the question off the display; and in every other
   step an unsettled displayed question stays displayed unless a new question
   replaces it (nothing else resolves or closes it). *)
C15_GateResolvesOnceOnNonblankSubmit ==
  [][\A g \in 1..Len(asks) :
       /\ asks[g].settled => asks'[g] = asks[g]
       /\ g \in Settled =>
            /\ Entry(overlay).questionSection = g
            /\ Nonblank(Entry(overlay).input)
            /\ Entry(overlay').questionSection = 0
       /\ (Entry(overlay).questionSection = g /\ g \notin Settled
             /\ Len(asks') = Len(asks)) =>
            Entry(overlay').questionSection = g]_vars

C15_Witness ==
  /\ Len(asks) = 1 /\ asks[1].settled /\ asks[1].answer = <<"a", "a">>
  /\ Entry(overlay).questionSection = 0
  /\ Len(reports) = 1

(* C16 (as stated): the answer a gate is resolved with, and the answer that
   ANSWER_HUMAN reports, is the text of the input, character for character. *)
C16_AnswerIsEnteredText ==
  [][\A g \in Settled :
       /\ asks'[g].answer = Entry(overlay).input
       /\ reports'[Len(reports')].body = Entry(overlay).input]_vars

\* answer is text without its leading and trailing white space.
Stripped(text, answer) ==
  \E i, j \in 0..Len(text) :
    /\ i + j <= Len(text)
    /\ answer = SubSeq(text, i + 1, Len(text) - j)
    /\ \A k \in 1..i : text[k] = " "
    /\ \A k \in (Len(text) - j + 1)..Len(text) : text[k] = " "
    /\ answer # << >> => answer[1] # " " /\ answer[Len(answer)] # " "

(* C16 (amended): the answer a gate is resolved with, and the answer that
   ANSWER_HUMAN reports, is the text of the input without its leading and
   trailing white space. *)
C16_AnswerIsTrimmedText ==
  [][\A g \in Settled :
       /\ Stripped(Entry(overlay).input, asks'[g].answer)
       /\ reports'[Len(reports')].type = "ANSWER_HUMAN"
       /\ reports'[Len(reports')].body = asks'[g].answer]_vars

C16_Witness ==
  /\ Len(asks) = 2
  /\ asks[2].settled /\ asks[2].answer = <<"a">>
  /\ reports # << >> /\ reports[Len(reports)].body = <<"a">>
  /\ reports[Len(reports)].cmd = asks[2].cmd

(* C17: an ask shows its question in place of whatever was displayed; a gate
   that is unsettled and not displayed is never settled and never displayed
   again; only the newest gate is ever settled; and no report answers the
   command of an unsettled gate. *)
C17_OneOpenQuestion ==
  [][/\ \A q \in {"q1", "q2"}, s \in SessionTags :
          handleAskHuman(q, s) =>
            /\ Len(asks') = Len(asks) + 1
            /\ Entry(overlay').questionSection = Len(asks')
     /\ \A g \in 1..Len(asks) :
          (~asks[g].settled /\ Entry(overlay).questionSection # g) =>
            /\ ~asks'[g].settled
            /\ Entry(overlay').questionSection # g
     /\ \A g \in Settled : g = Len(asks)
     /\ \A g \in 1..Len(asks') :
          ~asks'[g].settled =>
            \A i \in 1..Len(reports') : reports'[i].cmd # asks'[g].cmd]_vars

C17_Witness ==
  /\ Len(asks) = 2
  /\ ~asks[1].settled /\ asks[2].settled
  /\ Entry(overlay).questionSection = 0
  /\ Len(reports) = 1 /\ reports[1].cmd = asks[2].cmd
  /\ reports[1].sessionId = asks[2].sessionId /\ asks[1].sessionId # asks[2].sessionId

\* The references a snapshot lists.
SnapshotRefs(snap) ==
  {snap.fields[i].ref : i \in 1..Len(snap.fields)}
    \cup {snap.buttons[i].ref : i \in 1..Len(snap.buttons)}

(* C18: a scan that follows an earlier scan leaves every reference of the
   earlier scan's snapshot resolving to nothing: a lookup of it finds no
   element, and a fill or click with it reaches none. *)
C18_OldReferencesResolveToNothing ==
  [][(callScanPage /\ snapshot # {}) =>
       \A r \in SnapshotRefs(Entry(snapshot)) :
         /\ getElementByRef(refMap', r) = {}
         /\ ~fillFieldByRef(dom', refMap', r, <<"a">>).ok
         /\ ~clickElementByRef(refMap', r).ok]_vars

\* The place in the page of the node a reference is bound to.
Pos(r) == CHOOSE k \in 1..Len(dom) : dom[k].id = refMap[r].id

Attached(r) == \E k \in 1..Len(dom) : dom[k].id = refMap[r].id

(* C19: after every step, the snapshot last returned lists its fields as
   f0..f(n-1) and its buttons as b0..b(m-1), all distinct, and the reference
   table holds exactly those references; while the page is as it was scanned,
   the fields' nodes are in document order, the buttons found by the button
   selector come before those found by the link selector, each group in
   document order; and the table changes in no step other than a scan. *)
C19_ReferencesOfOneScan ==
  [][/\ \A snap \in snapshot' :
          /\ \A i \in 1..Len(snap.fields) : snap.fields[i].ref = Ref("f", i - 1)
          /\ \A i \in 1..Len(snap.buttons) : snap.buttons[i].ref = Ref("b", i - 1)
          /\ DOMAIN refMap' = SnapshotRefs(snap)
          /\ Cardinality(DOMAIN refMap') = Len(snap.fields) + Len(snap.buttons)
          /\ scans' >= 1 =>
               /\ \A r \in DOMAIN refMap' : Attached(r)'
               /\ \A i, j \in 1..Len(snap.fields) :
                    i < j => Pos(Ref("f", i - 1))' < Pos(Ref("f", j - 1))'
               /\ \A i, j \in 1..Len(snap.buttons) :
                    i < j =>
                      /\ snap.buttons[i].type = "link" => snap.buttons[j].type = "link"
                      /\ (snap.buttons[i].type = "link") = (snap.buttons[j].type = "link")
                           => Pos(Ref("b", i - 1))' < Pos(Ref("b", j - 1))'
     /\ snapshot' = {} => refMap' = << >>
     /\ refMap' # refMap => callScanPage]_vars

C19_Witness ==
  /\ snapshot # {}
  /\ Len(Entry(snapshot).fields) = 2 /\ Len(Entry(snapshot).buttons) = 2
  /\ scans = 0 /\ dom = << >>
  /\ refMap[Ref("f", 1)].id = refMap[Ref("b", 1)].id

(* C20: a scan of a page that has not changed since the previous scan returns
   a snapshot with as many fields and as many buttons as the previous one,
   the same references in the same order, each bound to the same element; and
   a scan changes nothing on the page and nothing but the reference table (and
   its own return value). *)
C20_RescanGivesSameReferences ==
  [][callScanPage =>
       /\ dom' = dom
       /\ UNCHANGED <<overlay, asks, reports, cmdResponse, handled, result>>
       /\ events' = << >>
       /\ UNCHANGED backgroundVars
       /\ scans >= 1 =>
            LET old == Entry(snapshot)
                new == Entry(snapshot')
            IN /\ Len(new.fields) = Len(old.fields)
               /\ Len(new.buttons) = Len(old.buttons)
               /\ \A i \in 1..Len(old.fields) : new.fields[i].ref = old.fields[i].ref
               /\ \A i \in 1..Len(old.buttons) : new.buttons[i].ref = old.buttons[i].ref
               /\ refMap' = refMap]_vars

C20_Witness ==
  /\ scans = 2
  /\ Len(Entry(snapshot).fields) = 1 /\ Len(Entry(snapshot).buttons) = 3

(* C21: a fill or a click whose reference is not in the current table (no
   scan yet, a reference of an earlier scan, a reference never issued) returns
   the failure { ok: false, error: "Element <ref> not found" } naming the
   requested reference; it does nothing to any element and changes neither
   the page nor the table. *)
C21_MissingReferenceIsNoOp ==
  [][\A r \in ScanRefs :
       /\ (r \notin DOMAIN refMap /\ callFillFieldByRef(r, <<"a">>)) =>
            /\ result' = {ActionResult(FALSE, <<"Element not found", r>>)}
            /\ events' = << >>
            /\ dom' = dom /\ refMap' = refMap
       /\ (r \notin DOMAIN refMap /\ callClickElementByRef(r)) =>
            /\ result' = {ActionResult(FALSE, <<"Element not found", r>>)}
            /\ events' = << >>
            /\ dom' = dom /\ refMap' = refMap]_vars

\* A fill or click was refused for a reference that the table, which has
\* entries, does not hold, on a page that has fields.
C21_Witness ==
  /\ result = {ActionResult(FALSE, <<"Element not found", Ref("f", 0)>>)}
  /\ DOMAIN refMap = {Ref("b", 0)}
  /\ \E i \in 1..Len(dom) : dom[i].kind = "input" /\ dom[i].visible

\* The element the reference f0 is bound to, before and after a step.
Target == elementOf(dom, refMap[Ref("f", 0)])
TargetAfter == elementOf(dom', refMap[Ref("f", 0)])

\* The reference f0 is bound to an element of this kind.
Bound(kind) == Ref("f", 0) \in DOMAIN refMap /\ refMap[Ref("f", 0)].kind = kind

\* The values that ask for a checked box: true, yes and 1 in any letter case.
MeansChecked(v) ==
  v \in {<<"1">>, <<"y", "e", "s">>, <<"Y", "e", "S">>, <<"T", "R", "U", "E">>}

(* C22: for every checkbox and every starting state, a fill with "yes",
   "TRUE" or "1" (true, yes, 1 in any letter case) leaves it checked and a fill
   with any other value leaves it unchecked; the fill returns ok; a click is
   fired only when the state before differs from the target, so repeating the
   fill fires no further click and does not toggle the box again. *)
C22_CheckboxFillReachesTarget ==
  [][\A v \in FillValues :
       (Bound("checkbox") /\ callFillFieldByRef(Ref("f", 0), v)) =>
         /\ TargetAfter.checked = MeansChecked(v)
         /\ result' = {ActionResult(TRUE, << >>)}
         /\ events' = IF Target.checked = MeansChecked(v) THEN << >>
                      ELSE <<Event("click", << >>)>>]_vars

\* Two strings are the same up to letter case.
SameText(a, b) == toLowerCase(a) = toLowerCase(b)

\* An option is an exact match of a value: by its display text or its value.
ExactMatch(opt, v) == SameText(opt.text, v) \/ SameText(opt.value, v)

\* The least number of a non-empty set of numbers.
Least(S) == CHOOSE i \in S : \A j \in S : i <= j

(* C23 (as stated): a fill of a select with the exact display text of one of
   its options, in any letter case, selects that option and returns ok. *)
C23_ExactTextSelectsThatOption ==
  [][\A v \in FillValues :
       (Bound("select") /\ callFillFieldByRef(Ref("f", 0), v)) =>
         \A k \in 1..Len(Target.options) :
           SameText(Target.options[k].text, v) =>
             /\ TargetAfter.selectedIndex = k
             /\ result' = {ActionResult(TRUE, << >>)}]_vars

(* C23 (amended): a fill of a select with the exact display text of one of its
   options, in any letter case, returns ok and goes by the first option in
   document order that is an exact match (by display text or by underlying
   value), never by an option that matches as a substring only, wherever that
   one stands; the option selected is the first one carrying the underlying
   value of that exact match.  It is the option whose text was given whenever
   no earlier option is an exact match or carries the same underlying value. *)
C23_FirstExactMatchWins ==
  [][\A v \in FillValues :
       (Bound("select") /\ callFillFieldByRef(Ref("f", 0), v)) =>
         \A k \in 1..Len(Target.options) :
           SameText(Target.options[k].text, v) =>
             LET os == Target.options
                 first == Least({i \in 1..Len(os) : ExactMatch(os[i], v)})
                 chosen == Least({i \in 1..Len(os) : os[i].value = os[first].value})
             IN /\ result' = {ActionResult(TRUE, << >>)}
                /\ events' = <<Event("change", os[first].value)>>
                /\ TargetAfter.selectedIndex = chosen
                /\ TargetAfter.options = os
                /\ (\A i \in 1..(k - 1) :
                      ~ExactMatch(os[i], v) /\ os[i].value # os[k].value)
                     => chosen = k]_vars

\* The second option of a select was selected by a fill with its exact text,
\* which the text of the first option contains.
C23_Witness ==
  /\ Bound("select")
  /\ Target.options = <<Option(<<"A", "b">>, <<"1">>), Option(<<"b">>, << >>)>>
  /\ Target.selectedIndex = 2
  /\ events = <<Event("change", << >>)>>
  /\ result = {ActionResult(TRUE, << >>)}

\* `part` occurs in `text`, up to letter case.
Within(part, text) ==
  \E i \in 0..(Len(text) - Len(part)) :
    SameText(SubSeq(text, i + 1, i + Len(part)), part)

(* C24 (as stated): a fill of a select with a value that is a substring of
   the display text of exactly one of its options selects that option and
   returns ok, for every option list and every such value. *)
C24_SubstringOfOneTextSelectsIt ==
  [][\A v \in FillValues :
       (Bound("select") /\ callFillFieldByRef(Ref("f", 0), v)) =>
         \A k \in 1..Len(Target.options) :
           (/\ Within(v, Target.options[k].text)
            /\ \A j \in 1..Len(Target.options) :
                 j # k => ~Within(v, Target.options[j].text))
             => /\ TargetAfter.selectedIndex = k
                /\ result' = {ActionResult(TRUE, << >>)}]_vars

(* C24 (amended): a fill of a select with a value that is a substring of the
   display text of exactly one of its options returns ok, and selects that
   option provided that no option is an exact match of the value (by display
   text or underlying value), that the text of no earlier option is contained
   in the value (an empty text is contained in every value), and that no
   earlier option carries the same underlying value. *)
C24_SubstringSelectsUnlessPreceded ==
  [][\A v \in FillValues :
       (Bound("select") /\ callFillFieldByRef(Ref("f", 0), v)) =>
         \A k \in 1..Len(Target.options) :
           LET os == Target.options
           IN (/\ Within(v, os[k].text)
               /\ \A j \in 1..Len(os) : j # k => ~Within(v, os[j].text))
                => /\ result' = {ActionResult(TRUE, << >>)}
                   /\ (/\ \A i \in 1..Len(os) : ~ExactMatch(os[i], v)
                       /\ \A i \in 1..(k - 1) : ~Within(os[i].text, v)
                       /\ \A i \in 1..(k - 1) : os[i].value # os[k].value)
                        => TargetAfter.selectedIndex = k]_vars

\* The second option of a select was selected by a fill with a part of its
\* text that is neither its text nor in the text of the first option.
C24_Witness ==
  /\ Bound("select")
  /\ Target.options = <<Option(<<"b">>, <<"1">>), Option(<<"A", "b">>, << >>)>>
  /\ Target.selectedIndex = 2
  /\ events = <<Event("change", << >>)>>
  /\ result = {ActionResult(TRUE, << >>)}

\* A value matches an option: it equals its text or its value, or is a part
\* of its text, or has its text as a part (parts that are not empty).
Matches(opt, v) ==
  \/ ExactMatch(opt, v)
  \/ v # << >> /\ Within(v, opt.text)
  \/ opt.text # << >> /\ Within(opt.text, v)

(* C25: a fill of a select with a value that matches none of its options
   (neither equal to, nor contained in, nor containing the display text of any,
   and equal to the underlying value of none) returns a failure whose message
   enumerates the display texts of all options with a non-empty value, fires
   nothing and leaves the selection unchanged; also when the select has a
   placeholder option with an empty display text and when the value is the
   empty string. *)
C25_UnmatchedValueFails ==
  [][\A v \in FillValues :
       (/\ Bound("select") /\ callFillFieldByRef(Ref("f", 0), v)
        /\ \A i \in 1..Len(Target.options) : ~Matches(Target.options[i], v)) =>
         /\ result' = {ActionResult(FALSE, <<"No matching option for", v,
                                             availableOptions(Target)>>)}
         /\ events' = << >>
         /\ TargetAfter = Target]_vars

(* C30: a fill of a free-text input or of a textarea clears the value and
   dispatches `input`, then sets the requested value and dispatches `input`,
   `change` and `blur`, in this order; afterwards the value of the element is
   the requested value and the result is ok.  (The first `input` event finds
   the empty value, the later events the requested one.) *)
C30_TextFillClearsThenSets ==
  [][\A v \in FillValues :
       ((Bound("input") \/ Bound("textarea")) /\ callFillFieldByRef(Ref("f", 0), v)) =>
         /\ events' = <<Event("input", << >>), Event("input", v),
                        Event("change", v), Event("blur", v)>>
         /\ TargetAfter.text = v
         /\ TargetAfter = [Target EXCEPT !.text = v]
         /\ result' = {ActionResult(TRUE, << >>)}]_vars

\* A textarea that held a text has been filled with another one.
C30_Witness ==
  /\ Bound("textarea")
  /\ Target.text = <<"a">>
  /\ events = <<Event("input", << >>), Event("input", <<"a">>),
                Event("change", <<"a">>), Event("blur", <<"a">>)>>
  /\ result = {ActionResult(TRUE, << >>)}

\* What a session's continuation hangs on at the relay: the registry, the
\* streams and the tabs they serve, the stop requests, the events pushed and
\* dispatched, and the messages sent to the tabs.
SessionState ==
  <<sessions, readyState, targetTabId, stopRequests, emitted, delivered, sent,
    closedBy, openTabs>>

(* C26: a failed fill or click does not abort the session.  The content
   script reports the failure as one ACTION_RESULT with ok false and the
   session id of the command, and returns { ok: true }; neither that handling
   nor the relay's handling of the ACTION_RESULT (whether the server accepts
   or rejects it) closes a stream, removes a registry entry or issues a stop
   request, nor touches anything the relaying of later events depends on, so
   later commands of the session are relayed and executed as before. *)
C26_FailedActionKeepsSession ==
  [][/\ \A r \in SessionRefs :
          LET res == fillFieldByRef(dom, refMap, r, <<"a">>)
          IN (~res.ok /\ Arrived("FILL_FIELD")
                /\ handleFillField(r, <<"a">>, NextCommand.sessionId)) =>
               /\ Len(reports') = Len(reports) + 1
               /\ reports'[Len(reports')].type = "ACTION_RESULT"
               /\ reports'[Len(reports')].sessionId = NextCommand.sessionId
               /\ reports'[Len(reports')].body = res
               /\ cmdResponse'.ok
               /\ UNCHANGED SessionState
     /\ \A r \in SessionRefs :
          LET res == clickElementByRef(refMap, r)
          IN (~res.ok /\ Arrived("CLICK_ELEMENT")
                /\ handleClickElement(r, NextCommand.sessionId)) =>
               /\ Len(reports') = Len(reports) + 1
               /\ reports'[Len(reports')].type = "ACTION_RESULT"
               /\ reports'[Len(reports')].sessionId = NextCommand.sessionId
               /\ reports'[Len(reports')].body = res
               /\ cmdResponse'.ok
               /\ UNCHANGED SessionState
     /\ \A s \in SessionTags :
          ResultBegin("ACTION_RESULT", PageTab, s) => UNCHANGED SessionState
     /\ \A h \in BagToSet(pending) :
          (h.type = "ACTION_RESULT" /\ (ResultAccepted(h) \/ ResultRejected(h))) =>
            UNCHANGED SessionState]_vars

\* A fill failed and was reported, the server rejected the report, and the
\* session is still registered with its stream open and no stop requested; the
\* next command, a scan, has been relayed, executed and reported.
C26_Witness ==
  /\ Len(reports) = 2
  /\ reports[1].type = "ACTION_RESULT" /\ ~reports[1].body.ok
  /\ reports[2].type = "PAGE_DATA" /\ Len(reports[2].body.fields) = 1
  /\ reports[2].sessionId = reports[1].sessionId
  /\ response.type = "ACTION_RESULT" /\ ~response.ok
  /\ \E e \in MapGet(sessions, PageTab) :
       /\ e.sessionId = reports[1].sessionId
       /\ readyState[e.eventSource] = "OPEN"
       /\ stopRequests[e.sessionId] = 0
  /\ Len(sent[PageTab]) = 2 /\ handled = 2

(* C29: a stream error sends nothing to the page: the error handler emits no
   SET_STATUS and no other command, and nothing of the content script
   changes with it, so the overlay keeps the status it last rendered
   (possibly running, with the stop control shown) until a later command
   changes it. *)
C29_StreamErrorIsSilent ==
  [][\A es \in SessionIds :
       StreamError(es) => (sent' = sent /\ UNCHANGED contentVars)]_vars

\* The stream of the tab's session has failed and its entry is gone, every
\* message sent to the tab has been handled, and the overlay still shows the
\* running status with the stop control.
C29_Witness ==
  /\ \E es \in DOMAIN closedBy : closedBy[es] = "onerror" /\ targetTabId[es] = PageTab
  /\ MapGet(sessions, PageTab) = {}
  /\ handled = Len(sent[PageTab]) /\ handled > 0
  /\ pending = EmptyBag
  /\ \E o \in overlay : o.statusIcon = "running" /\ o.stopBtn.display = "block"

\* No stream that serves the tab is open.
NoOpenStream(rs, t) == \A es \in DOMAIN rs : targetTabId[es] = t => rs[es] = "CLOSED"

(* C27: a failing server call is caught at the relay.  When the stop request
   fails during STOP or during re-activation, the failure is swallowed and the
   teardown completes: the stream of the session is closed and the tab's entry
   removed, STOP returns { ok: true } and the re-activation goes on to its
   start request.  When the stop request that a tab closure issued fails, the
   teardown made at the closure stands: the stream stays closed, the session
   stays out of the registry, and nothing else happens.  When the start request
   fails during ACTIVATE, the handler returns an error result and the tab is
   left with no registry entry and no open stream. *)
C27_ServerFailuresAreCaught ==
  [][/\ \A h \in BagToSet(pending) :
          StopAfterStopFailed(h) =>
            /\ readyState'[Entry(h.existing).eventSource] = "CLOSED"
            /\ MapGet(sessions', h.tabId) = {}
            /\ response' = Response("STOP", h.tabId, TRUE, EmptySessionId)
            /\ h \notin BagToSet(pending')
     /\ \A h \in BagToSet(pending) :
          ActivateAfterStopFailed(h) =>
            /\ readyState'[Entry(h.existing).eventSource] = "CLOSED"
            /\ MapGet(sessions', h.tabId) = {}
            /\ [h EXCEPT !.at = "startAutofill"] \in BagToSet(pending')
     /\ \A es \in SessionIds :
          onRemovedStopFailed(es) =>
            /\ readyState'[es] = "CLOSED"
            /\ \A t \in DOMAIN sessions' : sessions'[t].sessionId # es
            /\ UNCHANGED <<sessions, readyState, pending, sent, response>>
     /\ \A h \in BagToSet(pending) :
          ActivateStartFailed(h) =>
            /\ response'.type = "ACTIVATE" /\ response'.tabId = h.tabId
            /\ ~response'.ok
            /\ MapGet(sessions', h.tabId) = {}
            /\ NoOpenStream(readyState', h.tabId)
            /\ h \notin BagToSet(pending')]_vars

\* A STOP whose stop request failed has torn its session down and returned
\* success, after a re-activation whose stop request failed as well.
C27_Witness ==
  /\ Swallowed("ACTIVATE", 1) \in swallowed
  /\ Swallowed("STOP", 2) \in swallowed
  /\ readyState[1] = "CLOSED" /\ readyState[2] = "CLOSED"
  /\ sessions = << >>
  /\ pending = EmptyBag
  /\ response = Response("STOP", targetTabId[2], TRUE, EmptySessionId)

(* C28: the stream of a session is opened in the step in which its start
   request succeeds and stays open for the session's whole lifetime: in every
   reachable state each registry entry holds a stream that is open, and a
   stream is closed only in a step that also removes the entry holding it. *)
C28_EntriesHoldOpenStreams ==
  [][/\ \A t \in DOMAIN sessions' : readyState'[sessions'[t].eventSource] = "OPEN"
     /\ \A h \in BagToSet(pending) :
          ActivateStarted(h) =>
            \E e \in MapGet(sessions', h.tabId) :
              e.eventSource \notin DOMAIN readyState /\ readyState'[e.eventSource] = "OPEN"
     /\ \A es \in DOMAIN readyState :
          (readyState[es] = "OPEN" /\ readyState'[es] = "CLOSED") =>
            /\ \E t \in DOMAIN sessions : sessions[t].eventSource = es
            /\ \A t \in DOMAIN sessions' : sessions'[t].eventSource # es]_vars

\* A result is one the caller gets as a return value: { ok, error? }.
Returned(res) == DOMAIN res = {"ok", "error"}

\* A fill or click of reference r ends in this step, whatever it met.
FillEnds(r) ==
  \/ \E v \in ThrowValues : callFillFieldByRef(r, v)
  \/ \E v \in ThrowValues, k \in Steps, err \in Errors :
       callFillFieldByRefThrowing(r, v, k, err)

ClickEnds(r) ==
  callClickElementByRef(r) \/ \E err \in Errors : callClickElementByRefThrowing(r, err)

(* C31: a fill or a click always gives its caller a result and never an
   exception: an error thrown by the native click, or by any step of a fill, is
   returned as { ok: false, error: String(err) }; a value that is not a string
   makes the fill of a checkbox or of a select such a failure and leaves the
   element as it was; the fill of a file input always returns the failure
   "Cannot programmatically fill file inputs", dispatches nothing and leaves
   the page as it was. *)
C31_ErrorsAreReturned ==
  [][\A r \in ThrowRefs :
       /\ (FillEnds(r) \/ ClickEnds(r)) =>
            \E res \in result' : result' = {res} /\ Returned(res)
       /\ \A err \in Errors :
            /\ callClickElementByRefThrowing(r, err) =>
                 result' = {ActionResult(FALSE, <<"Error", err>>)} /\ dom' = dom
            /\ \A v \in ThrowValues, k \in Steps :
                 callFillFieldByRefThrowing(r, v, k, err) =>
                   result' = {ActionResult(FALSE, <<"Error", err>>)}
       /\ ((Bound("checkbox") \/ Bound("select")) /\ r = Ref("f", 0)
             /\ callFillFieldByRef(r, undefined)) =>
            /\ result' = {ActionResult(FALSE, <<"Error", "TypeError">>)}
            /\ dom' = dom /\ events' = << >>
       /\ (Bound("file") /\ r = Ref("f", 0) /\ FillEnds(r)) =>
            /\ result' = {ActionResult(FALSE,
                            <<"Cannot programmatically fill file inputs">>)}
            /\ dom' = dom /\ events' = << >>]_vars

\* The fill of a text input was stopped by an error thrown when the second
\* event was dispatched, and the error came back as the result.
C31_Witness ==
  /\ Bound("input")
  /\ Target.text = <<"a">>
  /\ events = <<Event("input", << >>)>>
  /\ result = {ActionResult(FALSE, <<"Error", "InvalidStateError">>)}

\* The pending-question slot of the overlay: the gate displayed with what the
\* human has typed so far (nothing displayed before the overlay exists).
Slot(ov) ==
  IF ov = {} THEN <<0, << >>>> ELSE <<Entry(ov).questionSection, Entry(ov).input>>

\* This step is an accepted submit: it settles the displayed gate.
AcceptedSubmit == Entry(overlay).questionSection \in Settled

(* C32: handling a setStatus command and toggling the minimize control leave
   the pending question as it was: the gate displayed, the text typed and
   every gate's state are unchanged and nothing is reported; the gate
   displayed changes only in an accepted submit or in the handling of a new
   ask; and a displayed gate is always an unsettled one, so it can still be
   resolved by a submit. *)
C32_StatusAndMinimizeKeepQuestion ==
  [][/\ \A st \in OverlayStatus :
          handleSetStatus(st, NoMessage) =>
            Slot(overlay') = Slot(overlay) /\ asks' = asks /\ reports' = reports
     /\ clickMinimize =>
          /\ Slot(overlay') = Slot(overlay) /\ asks' = asks /\ reports' = reports
          /\ Entry(overlay').minimized = ~Entry(overlay).minimized
     /\ Slot(overlay')[1] # Slot(overlay)[1] =>
          \/ overlay # {} /\ AcceptedSubmit
          \/ \E q \in {"q1", "q2"}, s \in SessionTags : handleAskHuman(q, s)
     /\ asks' # asks =>
          \/ overlay # {} /\ AcceptedSubmit
          \/ \E q \in {"q1", "q2"}, s \in SessionTags : handleAskHuman(q, s)
     /\ Slot(overlay')[1] # 0 => ~asks'[Slot(overlay')[1]].settled]_vars

\* A question was asked, an answer typed, then the status set and the overlay
\* minimized: the question and the text typed are still there, unanswered.
C32_Witness ==
  /\ overlay # {}
  /\ Len(asks) = 1 /\ asks[1].cmd = 1 /\ ~asks[1].settled
  /\ handled = 2
  /\ Entry(overlay).statusIcon = "done"
  /\ Entry(overlay).minimized
  /\ Entry(overlay).questionSection = 1
  /\ Entry(overlay).input = <<"a">>
  /\ reports = << >>

\* A question is pending: a gate is displayed (it is unsettled, and the
\* invocation of handleCommand that asked it is suspended at its await).
GateOpen == overlay # {} /\ Entry(overlay).questionSection # 0

\* The reports the step adds.
NewReports == {reports'[i] : i \in (Len(reports) + 1)..Len(reports')}

(* C33: a pending question suspends the handling of its own ask only: while a
   gate is open, a scan, fill, click or setStatus command that arrives can be
   handled (as long as commands arrive at all); its handling sends its report
   and leaves the gate open; and an ANSWER_HUMAN report is sent only in the
   step of an accepted submit, for the command of the gate that the submit
   settles. *)
C33_GateSuspendsOnlyItsAsk ==
  /\ [](GateOpen /\ handled < MaxCommands =>
          /\ ENABLED handleScanPage(1)
          /\ ENABLED handleFillField(Ref("f", 0), <<"a">>, 1)
          /\ ENABLED handleClickElement(Ref("b", 0), 1)
          /\ ENABLED handleSetStatus("running", NoMessage))
  /\ [][/\ GateOpen =>
             \A s \in SessionTags :
               /\ handleScanPage(s) =>
                    /\ ReportsOne("PAGE_DATA", s, Entry(snapshot'))
                    /\ Slot(overlay')[1] = Slot(overlay)[1] /\ asks' = asks
               /\ \A r \in CommandRefs :
                    /\ handleFillField(r, <<"a">>, s) =>
                         /\ ReportsOne("ACTION_RESULT", s, Entry(result'))
                         /\ Slot(overlay')[1] = Slot(overlay)[1] /\ asks' = asks
                    /\ handleClickElement(r, s) =>
                         /\ ReportsOne("ACTION_RESULT", s, Entry(result'))
                         /\ Slot(overlay')[1] = Slot(overlay)[1] /\ asks' = asks
        /\ \A rep \in NewReports :
             rep.type = "ANSWER_HUMAN" =>
               /\ GateOpen /\ AcceptedSubmit
               /\ rep.cmd = asks[Entry(overlay).questionSection].cmd
               /\ rep.body = asks'[Entry(overlay).questionSection].answer
               /\ rep.body # << >>]_vars

\* A question was asked, a scan command arrived and was reported while the
\* question was pending, and then the human's submit sent the answer.
C33_Witness ==
  /\ Len(asks) = 1 /\ asks[1].cmd = 1 /\ asks[1].settled
  /\ Len(reports) = 2
  /\ reports[1].type = "PAGE_DATA" /\ reports[1].cmd = 2
  /\ reports[2].type = "ANSWER_HUMAN" /\ reports[2].cmd = 1
  /\ reports[2].body = <<"a">>

\* The states a status event is specified to carry, and the overlay status
\* each stands for.
KnownStates == {"running", "waiting_for_human", "done", "error", "stopped", "idle"}
StatusFor(state) == IF state = "waiting_for_human" THEN "waiting" ELSE state

(* C34: an event that is not a command and whose state is none of running,
   waiting_for_human, done, error, stopped, idle (no state at all included) is
   relayed as SET_STATUS with status running; one with a known state is
   relayed with that state's status, waiting_for_human as waiting; the status
   relayed is always one of the overlay's six. *)
C34_UnknownStateIsRunning ==
  [][\A es \in DOMAIN delivered :
       (delivered'[es] = delivered[es] + 1
          /\ Dispatched(es).data.json = "object"
          /\ Dispatched(es).data.type \notin CommandEvents) =>
         LET t == targetTabId[es]
             m == sent'[t][Len(sent'[t])]
             state == Dispatched(es).data.state
         IN /\ SendsOne(t, es, Dispatched(es))
            /\ m.type = "SET_STATUS"
            /\ m.status \in OverlayStatus
            /\ m.status = IF state \in KnownStates THEN StatusFor(state)
                          ELSE "running"]_vars

\* The registry entry of the session whose stream is es.
EntryOf(es) == [sessionId |-> es, eventSource |-> es]

\* The streams opened for tab t that are open.
OpenStreams(t) ==
  {es \in DOMAIN readyState : targetTabId[es] = t /\ readyState[es] = "OPEN"}

(* C35: every stream that is open is the stream of the registry entry of the
   tab it was opened for: in no reachable state is there an open stream that
   the registry does not reference. *)
C35_OpenStreamsAreRegistered ==
  \A es \in DOMAIN readyState :
    readyState[es] = "OPEN" => MapGet(sessions, targetTabId[es]) = {EntryOf(es)}

\* The session whose entry the step removes from the registry of tab t (none:
\* the set is empty).
Removed(t) ==
  {e.sessionId : e \in {x \in MapGet(sessions, t) : MapGet(sessions', t) # {x}}}

(* C36: the error handler of a stream removes from the registry only the
   entry of that stream's session, and a STOP handler that resumes after its
   stop request removes only the entry of the session it stopped: neither
   deletes the entry of another session registered for the tab meanwhile. *)
C36_DeletesOwnEntryOnly ==
  [][/\ \A es \in DOMAIN readyState :
          StreamError(es) => Removed(targetTabId[es]) \subseteq {es}
     /\ \A h \in BagToSet(pending) :
          StopAfterStop(h) => Removed(h.tabId) \subseteq {Entry(h.existing).sessionId}]_vars

\* No handleMessage invocation for tab t is in progress.
Quiet(t) == \A h \in BagToSet(pending) : h.tabId # t

(* C37: once a tab is closed and the handlers in progress for it have
   finished, the registry has no entry for the tab and no stream opened for it
   is open. *)
C37_ClosedTabHasNoSession ==
  \A t \in Tabs :
    (t \notin openTabs /\ Quiet(t)) =>
      MapGet(sessions, t) = {} /\ OpenStreams(t) = {}

\* Tab t has no session: no registry entry and no open stream of its own.
NoSession(reg, rs, t) ==
  /\ MapGet(reg, t) = {}
  /\ \A es \in DOMAIN rs : targetTabId'[es] = t => rs[es] # "OPEN"

\* A STOP for tab t has been answered (and no handler has answered since).
StopAnswered(t) == response.type = "STOP" /\ response.tabId = t

(* C38: where one ACTIVATE is issued for a tab and every STOP for the tab is
   handled after it, the tab has no registry entry and no open stream once
   the handlers have finished: whichever of them finishes last, an ACTIVATE
   handler that finishes after a STOP was answered included. *)
C38_StopOutlivesActivation ==
  [][/\ \A h \in BagToSet(pending) :
          (ActivateStarted(h) /\ StopAnswered(h.tabId) /\ pending' = EmptyBag) =>
            NoSession(sessions', readyState', h.tabId)
     /\ \A h \in BagToSet(pending) :
          (StopAfterStop(h) /\ pending' = EmptyBag) =>
            NoSession(sessions', readyState', h.tabId)
     /\ (StopNoSession(PageTab) /\ pending' = EmptyBag) =>
          NoSession(sessions', readyState', PageTab)]_vars

\* The stream of session s has failed (eventSource.onerror ran for it).
Errored(s) == s \in DOMAIN closedBy /\ closedBy[s] = "onerror"

(* C39: every session that the relay started and that is not in the registry
   has had its stream fail or has been sent a stop request: no session leaves
   the registry, by deletion or by being overwritten, while the server runs it
   unasked to stop. *)
C39_DroppedSessionsAreStopped ==
  \A s \in DOMAIN readyState :
    s \notin Registered => Errored(s) \/ stopRequests[s] > 0

\* Message i sent to tab t is the `stopped` status of a STOP that stopped
\* session s.
StoppedStatus(t, i, s) ==
  /\ sent[t][i].type = "SET_STATUS" /\ sent[t][i].status = "stopped"
  /\ sent[t][i].origin = s /\ sent[t][i].seq = 0

(* C40: when a STOP handler that stopped a session sends SET_STATUS stopped,
   the session's stream is closed, and no message made from an event of that
   session is sent to the tab after it; events dispatched while the stop
   request was awaited were relayed before it. *)
C40_StoppedIsLastOfSession ==
  \A t \in Tabs : \A i \in 1..Len(sent[t]) : \A s \in DOMAIN readyState :
    StoppedStatus(t, i, s) =>
      /\ readyState[s] = "CLOSED"
      /\ \A j \in (i + 1)..Len(sent[t]) :
           ~(sent[t][j].origin = s /\ sent[t][j].seq > 0)

\* An event of session 1 was relayed while the STOP awaited its stop request,
\* then the stopped status was sent, and an event the server had pushed
\* meanwhile was never relayed.
C40_Witness ==
  /\ Len(sent[1]) = 2
  /\ sent[1][1].origin = 1 /\ sent[1][1].seq = 1 /\ sent[1][1].type = "SCAN_PAGE"
  /\ StoppedStatus(1, 2, 1)
  /\ emitted[1] # << >>
  /\ stopRequests[1] = 1
  /\ pending = EmptyBag

====
